---- MODULE Spec2Model ----
(***************************************************************************)
(* A model of the localization translation scripts: translate-values.js    *)
(* (tag extraction and restoration, the Sugoi HTTP call, the per-string    *)
(* pipeline of translateObjectValues, the directory run with its tracking  *)
(* file) and fix-newlines.js.                                              *)
(*                                                                         *)
(* Text is a sequence of one-character strings.  Three stand-ins are used  *)
(* for characters outside ASCII: LB and RB for the fullwidth brackets      *)
(* U+3008 and U+3009, Kana for any Japanese character (not a word          *)
(* character, not whitespace, not special to any pattern of the code),     *)
(* Curly for the curly apostrophes and DoubleCurly for the curly double    *)
(* quotes.                                                                 *)
(***************************************************************************)
EXTENDS Integers, Sequences, FiniteSets, TLC

VARIABLES
    \* extractAndPreserveTags / restoreTags applied to one string
    text, processedText, tagMap, corruption, translated, restored, tpc,
    \* translateWithSugoi: the script it is called in, the input of each call,
    \* the promise of each call, the requests issued, the caller's position
    script, inputs, promises, reqs, hpc,
    \* a run of translate-values.js over the directory: the files and the
    \* tracking file on disk, the tracking set in memory, the run's position,
    \* limit and counters, and what the run has done to each file so far
    disk, trackingOnDisk, translatedFiles, rpc, cursor, maxFiles, stats, runs,
    seen, parsed, sent, rewritten, skippedFiles, loaded,
    \* translateObjectValues on one string: an object entry or an array item,
    \* its source text, what the code has computed for it so far, its
    \* position, and the requests made for it
    stringKind, key, hasUsername, entryTagMap, originalParts, translatedParts,
    finalTranslation, ppc, calls, fellBack,
    \* the passes that end the pipeline, applied one after the other to one
    \* text: the text at the start, the text that entered the honorific
    \* pass, the text now, and the number of passes applied
    passInput, passHonorificIn, passText, passStage,
    \* translateObjectValues on one object or array: what it is called
    \* with, and the result built so far
    obj, result,
    \* fix-newlines.js applied again and again to one file: whether the file
    \* parses, the entries it holds, the entries it held before the last
    \* application, and what each application returned
    fileParses, fileData, fileBefore, fixReturns

tagVars == <<text, processedText, tagMap, corruption, translated, restored, tpc>>

httpVars == <<script, inputs, promises, reqs, hpc>>

runVars == <<disk, trackingOnDisk, translatedFiles, rpc, cursor, maxFiles, stats, runs,
             seen, parsed, sent, rewritten, skippedFiles, loaded>>

pipeVars == <<stringKind, key, hasUsername, entryTagMap, originalParts,
              translatedParts, finalTranslation, ppc, calls, fellBack>>

passVars == <<passInput, passHonorificIn, passText, passStage>>

objVars == <<obj, result>>

fixVars == <<fileParses, fileData, fileBefore, fixReturns>>

vars == <<tagVars, httpVars, runVars, pipeVars, passVars, objVars, fixVars>>

----------------------------------------------------------------------------
(* Characters and character classes                                        *)

LB == "["
RB == "]"
Kana == "#"
Curly == "~"
DoubleCurly == "^"
NL == "\n"

LowerSeq ==
    <<"a", "b", "c", "d", "e", "f", "g", "h", "i", "j", "k", "l", "m",
      "n", "o", "p", "q", "r", "s", "t", "u", "v", "w", "x", "y", "z">>
UpperSeq ==
    <<"A", "B", "C", "D", "E", "F", "G", "H", "I", "J", "K", "L", "M",
      "N", "O", "P", "Q", "R", "S", "T", "U", "V", "W", "X", "Y", "Z">>
DigitSeq == <<"0", "1", "2", "3", "4", "5", "6", "7", "8", "9">>

Range(s) == {s[i] : i \in 1..Len(s)}

Lower == Range(LowerSeq)
Upper == Range(UpperSeq)
Digit == Range(DigitSeq)

\* [a-zA-Z0-9]
IsAlnum(c) == c \in Lower \cup Upper \cup Digit

\* [a-zA-Z0-9%]
IsAlnumPct(c) == IsAlnum(c) \/ c = "%"

\* \s
IsSpace(c) == c \in {" ", NL, "\t"}

\* \w
IsWord(c) == IsAlnum(c) \/ c = "_"

LowerOf == [c \in Upper |-> LowerSeq[CHOOSE i \in 1..26 : UpperSeq[i] = c]]

ToLower(c) == IF c \in Upper THEN LowerOf[c] ELSE c

----------------------------------------------------------------------------
(* String operations of the language                                       *)

\* s.substring(from, to), 0-based, to exclusive
Substring(s, from, to) == SubSeq(s, from + 1, to)

\* s.substring(from)
SubstringFrom(s, from) == SubSeq(s, from + 1, Len(s))

\* the literal lit stands in s at the 1-based position i
MatchAt(s, i, lit) ==
    /\ i >= 1
    /\ i + Len(lit) - 1 <= Len(s)
    /\ \A k \in 1..Len(lit) : s[i + k - 1] = lit[k]

\* the same, ignoring letter case (the i flag)
MatchAtCI(s, i, lit) ==
    /\ i >= 1
    /\ i + Len(lit) - 1 <= Len(s)
    /\ \A k \in 1..Len(lit) : ToLower(s[i + k - 1]) = ToLower(lit[k])

\* s.includes(lit)
Includes(s, lit) == \E i \in 1..Len(s) : MatchAt(s, i, lit)

\* the length of the run of the character c from position i on
RunOf(s, i, c) ==
    IF i > Len(s) THEN 0
    ELSE CHOOSE n \in 0..(Len(s) - i + 1) :
            /\ \A k \in i..(i + n - 1) : s[k] = c
            /\ i + n > Len(s) \/ s[i + n] # c

\* the length of the run of characters of the set C from position i on
RunIn(s, i, C) ==
    IF i > Len(s) THEN 0
    ELSE CHOOSE n \in 0..(Len(s) - i + 1) :
            /\ \A k \in i..(i + n - 1) : s[k] \in C
            /\ i + n > Len(s) \/ s[i + n] \notin C

\* s.replace(re, ...) for a global pattern, from position i on: lens[j] is
\* the length of the match that starts at position j (0: none; every pattern
\* of the code matches at least one character) and reps[j] its replacement,
\* both computed on the string as it was before the call. The search goes
\* on after each match.
RECURSIVE ReplaceAt(_, _, _, _, _)
RECURSIVE ReplaceNext(_, _, _, _, _)
ReplaceAt(s, lens, reps, i, starts) ==
    IF starts = {} THEN SubSeq(s, i, Len(s))
    ELSE ReplaceNext(s, lens, reps, i, CHOOSE j \in starts : \A k \in starts : j <= k)

ReplaceNext(s, lens, reps, i, j) ==
    SubSeq(s, i, j - 1) \o reps[j]
        \o ReplaceAt(s, lens, reps, j + lens[j],
                     {k \in (j + lens[j])..Len(s) : lens[k] > 0})

ReplaceFrom(s, lens, reps, i) ==
    ReplaceAt(s, lens, reps, i, {k \in i..Len(s) : lens[k] > 0})

\* the positions at which a global pattern matches, left to right
RECURSIVE MatchesAt(_, _)
RECURSIVE MatchesNext(_, _)
MatchesAt(lens, starts) ==
    IF starts = {} THEN <<>>
    ELSE MatchesNext(lens, CHOOSE j \in starts : \A k \in starts : j <= k)

MatchesNext(lens, j) ==
    <<j>> \o MatchesAt(lens, {k \in (j + lens[j])..Len(lens) : lens[k] > 0})

MatchesFrom(lens, i) == MatchesAt(lens, {k \in i..Len(lens) : lens[k] > 0})

\* the decimal digits of n
RECURSIVE Decimal(_)
Decimal(n) ==
    IF n < 10 THEN <<DigitSeq[n + 1]>>
    ELSE Decimal(n \div 10) \o <<DigitSeq[(n % 10) + 1]>>

\* the length of the run of digits at position i
DigitsLen(s, i) == RunIn(s, i, Digit)

\* parseInt of a run of digits
RECURSIVE ParseInt(_)
ParseInt(d) ==
    IF d = <<>> THEN 0
    ELSE 10 * ParseInt(SubSeq(d, 1, Len(d) - 1))
         + (CHOOSE k \in 0..9 : DigitSeq[k + 1] = d[Len(d)])

----------------------------------------------------------------------------
(* extractAndPreserveTags                                                  *)

Underscores3 == <<"_", "_", "_">>
TAG == <<"T", "A", "G">>

\* the template ___TAG${tagIndex}___
Placeholder(tagIndex) == Underscores3 \o TAG \o Decimal(tagIndex) \o Underscores3

\* tagIndex++ left out
NextTagIndexSame(tagIndex) == tagIndex

\* tagIndex++
NextTagIndex(tagIndex) == tagIndex + 1

\* a pattern that leaves the closing bracket out of the match
tagPatternLenOpen(s, i) ==
    IF s[i] # LB \/ i = Len(s) \/ s[i + 1] = RB THEN 0
    ELSE LET rest == {j \in (i + 2)..Len(s) : s[j] = RB}
         IN IF rest = {} THEN 0
            ELSE (CHOOSE j \in rest : \A k \in rest : j <= k) - i

\* The length of the match of /LB([^RB]+)RB/ at position i, 0 when there is
\* none: an opening bracket, at least one character that is not a closing
\* bracket, and the first closing bracket after them.
tagPatternLen(s, i) ==
    IF s[i] # LB \/ i = Len(s) \/ s[i + 1] = RB THEN 0
    ELSE LET rest == {j \in (i + 2)..Len(s) : s[j] = RB}
         IN IF rest = {} THEN 0
            ELSE (CHOOSE j \in rest : \A k \in rest : j <= k) - i + 1

\* the lengths of the matches of tagPattern, by position
tagLens(s) == [i \in 1..Len(s) |-> tagPatternLen(s, i)]

\* matches.push({fullTag: match[0], index: match.index})
matchRecords(s, lens, positions) ==
    [k \in 1..Len(positions) |->
        [fullTag |-> SubSeq(s, positions[k], positions[k] + lens[positions[k]] - 1),
         index |-> positions[k] - 1]]

\* the while loop of tagPattern.exec: the matches, left to right
tagMatches(s) == matchRecords(s, tagLens(s), MatchesFrom(tagLens(s), 1))

\* Map.prototype.set on a map kept as the sequence of its entries in
\* insertion order
MapSet(m, k, v) ==
    IF \E i \in 1..Len(m) : m[i][1] = k
    THEN [i \in 1..Len(m) |-> IF m[i][1] = k THEN <<k, v>> ELSE m[i]]
    ELSE Append(m, <<k, v>>)

\* the for loop over the matches from the last to the first
RECURSIVE extractLoop(_, _, _, _, _)
extractLoop(matches, i, tagIndex, map, processed) ==
    IF i < 1 THEN [processedText |-> processed, tagMap |-> map]
    ELSE extractLoop(matches, i - 1, NextTagIndex(tagIndex),
            MapSet(map, Placeholder(tagIndex), matches[i].fullTag),
            Substring(processed, 0, matches[i].index)
               \o Placeholder(tagIndex)
               \o SubstringFrom(processed, matches[i].index + Len(matches[i].fullTag)))

extractAndPreserveTags(s) ==
    extractLoop(tagMatches(s), Len(tagMatches(s)), 0, <<>>, s)

----------------------------------------------------------------------------
(* restoreTags                                                             *)

\* s[k] of the language, k counted from 0
CharAt(s, k) == s[k + 1]

\* the first position of TAG followed by a digit, 0 when there is none
RECURSIVE TagDigitsAt(_, _)
TagDigitsAt(s, i) ==
    IF i > Len(s) THEN 0
    ELSE IF MatchAt(s, i, TAG) /\ DigitsLen(s, i + 3) > 0 THEN i
    ELSE TagDigitsAt(s, i + 1)

\* parseInt of the digits that follow TAG at position i
IndexAt(s, i) == ParseInt(SubSeq(s, i + 3, i + 2 + DigitsLen(s, i + 3)))

\* a[0].match(/TAG(\d+)/) and parseInt of its group, 0 when there is no match
SortIndex(placeholder) ==
    IF TagDigitsAt(placeholder, 1) = 0 THEN 0
    ELSE IndexAt(placeholder, TagDigitsAt(placeholder, 1))

\* a stable insertion of the entry e into entries sorted highest index first
RECURSIVE insertSorted(_, _)
insertSorted(sorted, e) ==
    IF sorted = <<>> THEN <<e>>
    ELSE IF SortIndex(Head(sorted)[1]) >= SortIndex(e[1])
         THEN <<Head(sorted)>> \o insertSorted(Tail(sorted), e)
         ELSE <<e>> \o sorted

RECURSIVE sortFrom(_, _, _)
sortFrom(map, i, acc) ==
    IF i > Len(map) THEN acc ELSE sortFrom(map, i + 1, insertSorted(acc, map[i]))

\* Array.from(tagMap.entries()).sort((a, b) => bIndex - aIndex): a stable
\* sort, highest index first
sortedEntries(map) == sortFrom(map, 1, <<>>)

\* placeholder.match(/^___TAG(\d+)___$/): the digits of the group, <<>> when
\* the placeholder has another shape
indexMatch(placeholder) ==
    IF /\ Len(placeholder) >= 10
       /\ MatchAt(placeholder, 1, Underscores3 \o TAG)
       /\ DigitsLen(placeholder, 7) = Len(placeholder) - 9
       /\ MatchAt(placeholder, Len(placeholder) - 2, Underscores3)
    THEN SubSeq(placeholder, 7, Len(placeholder) - 3)
    ELSE <<>>

needsSpaceBefore(s, beforeIndex) ==
    /\ beforeIndex >= 0
    /\ IsAlnumPct(CharAt(s, beforeIndex))
    /\ ~IsSpace(CharAt(s, beforeIndex))

needsSpaceAfter(s, afterIndex) ==
    /\ afterIndex < Len(s)
    /\ IsAlnumPct(CharAt(s, afterIndex))
    /\ ~IsSpace(CharAt(s, afterIndex))

\* a test that finds nothing
exactPatternTestNever(s, placeholder) == FALSE

\* exactPattern.test(restored)
exactPatternTest(s, placeholder) == Includes(s, placeholder)

\* the lengths of the matches of a literal, by position
literalLens(s, lit) ==
    [i \in 1..Len(s) |-> IF MatchAt(s, i, lit) THEN Len(lit) ELSE 0]

\* the tag with a space on each side that needs one
spacedTag(s, beforeIndex, afterIndex, tag) ==
    (IF needsSpaceBefore(s, beforeIndex) THEN <<" ">> ELSE <<>>)
    \o tag
    \o (IF needsSpaceAfter(s, afterIndex) THEN <<" ">> ELSE <<>>)

\* restored.replace(exactPattern, (match, offset) => ...): every occurrence of
\* the placeholder becomes the tag, with a space on each side where the
\* neighbour in the string before the call is a letter, a digit or %
replaceExact(s, placeholder, tag) ==
    ReplaceFrom(s, literalLens(s, placeholder),
        [i \in 1..Len(s) |-> spacedTag(s, i - 2, i - 1 + Len(placeholder), tag)], 1)

\* (?![a-zA-Z0-9%<]) fails at position p
lookaheadBlocked(s, p) == p <= Len(s) /\ (IsAlnumPct(s[p]) \/ s[p] = "<")

\* The underscores that the trailing _+ takes of a run of v at position k:
\* the whole run, or one less when the character after the run is in the
\* class of the lookahead; 0 when the pattern fails.
trailTaken(s, k, v) ==
    IF v >= 1 /\ ~lookaheadBlocked(s, k + v) THEN v
    ELSE IF v >= 2 THEN v - 1
    ELSE 0

flexibleTail(s, k) == trailTaken(s, k, RunOf(s, k, "_"))

\* [Tt][Aa][Gg]${index}_+(?![a-zA-Z0-9%<]) after a leading run of u
\* underscores at position j
flexibleAfterLead(s, j, u, index) ==
    IF /\ u >= 1
       /\ MatchAtCI(s, j + u, TAG)
       /\ MatchAt(s, j + u + 3, index)
       /\ flexibleTail(s, j + u + 3 + Len(index)) > 0
    THEN u + 3 + Len(index) + flexibleTail(s, j + u + 3 + Len(index))
    ELSE 0

\* The length of the match of _+[Tt][Aa][Gg]${index}_+(?![a-zA-Z0-9%<]) at
\* position j, 0 when there is none.
flexibleBodyLen(s, j, index) == flexibleAfterLead(s, j, RunOf(s, j, "_"), index)

\* the digits that follow TAG after the underscores at position j
digitsAfterLead(s, j) ==
    SubSeq(s, j + RunOf(s, j, "_") + 3,
              j + RunOf(s, j, "_") + 2 + DigitsLen(s, j + RunOf(s, j, "_") + 3))

\* the flexible pattern built with \d+ in place of the index of the entry
flexiblePatternLenAnyIndex(s, i, index) ==
    IF i = 1 /\ digitsAfterLead(s, 1) # <<>>
             /\ flexibleBodyLen(s, 1, digitsAfterLead(s, 1)) > 0
    THEN flexibleBodyLen(s, 1, digitsAfterLead(s, 1))
    ELSE IF /\ ~(IsAlnumPct(s[i]) \/ s[i] = "_")
            /\ digitsAfterLead(s, i + 1) # <<>>
            /\ flexibleBodyLen(s, i + 1, digitsAfterLead(s, i + 1)) > 0
         THEN 1 + flexibleBodyLen(s, i + 1, digitsAfterLead(s, i + 1))
         ELSE 0

\* The length of the match of the whole flexiblePattern at position i:
\* (?:^|[^_a-zA-Z0-9%]) and then the body.
flexiblePatternLen(s, i, index) ==
    IF i = 1 /\ flexibleBodyLen(s, 1, index) > 0
    THEN flexibleBodyLen(s, 1, index)
    ELSE IF ~(IsAlnumPct(s[i]) \/ s[i] = "_") /\ flexibleBodyLen(s, i + 1, index) > 0
         THEN 1 + flexibleBodyLen(s, i + 1, index)
         ELSE 0

flexibleLens(s, index) == [i \in 1..Len(s) |-> flexiblePatternLen(s, i, index)]

USERNAME_PLACEHOLDER ==
    <<"U", "S", "E", "R", "N", "A", "M", "E", "_",
      "P", "L", "A", "C", "E", "H", "O", "L", "D", "E", "R">>
color == <<"c", "o", "l", "o", "r">>
material == <<"m", "a", "t", "e", "r", "i", "a", "l">>

\* the characters examined on each side of a candidate match
ContextWindow == 30

Max(a, b) == IF a > b THEN a ELSE b
Min(a, b) == IF a < b THEN a ELSE b

\* restored.substring(contextStart, contextEnd)
contextOf(s, startIndex, length) ==
    Substring(s, Max(0, startIndex - ContextWindow),
                 Min(Len(s), startIndex + length + ContextWindow))

\* /<[^>]*(?:color|material)/i.test(context)
htmlTagTest(context) ==
    \E i \in 1..Len(context) :
        /\ context[i] = "<"
        /\ \E j \in (i + 1)..Len(context) :
              /\ MatchAtCI(context, j, color) \/ MatchAtCI(context, j, material)
              /\ \A k \in (i + 1)..(j - 1) : context[k] # ">"

\* neither of the two tests on the context skips the match
contextAllows(context) ==
    /\ ~Includes(context, USERNAME_PLACEHOLDER)
    /\ ~htmlTagTest(context)

\* the while loop of flexiblePattern.exec over the matches at positions:
\* the matches kept. beforeChar is match[1] of a pattern that has no
\* capturing group: undefined, hence ''.
RECURSIVE keptMatches(_, _, _, _)
keptMatches(s, lens, positions, k) ==
    IF k > Len(positions) THEN <<>>
    ELSE (IF contextAllows(contextOf(s, positions[k] - 1, lens[positions[k]]))
          THEN <<[index |-> positions[k] - 1, length |-> lens[positions[k]],
                  beforeChar |-> <<>>]>>
          ELSE <<>>)
         \o keptMatches(s, lens, positions, k + 1)

flexibleMatches(s, index) ==
    keptMatches(s, flexibleLens(s, index), MatchesFrom(flexibleLens(s, index), 1), 1)

\* the loop over the matches in reverse order
RECURSIVE replaceLoop(_, _, _, _)
replaceLoop(matches, i, r, tag) ==
    IF i < 1 THEN r
    ELSE replaceLoop(matches, i - 1,
            Substring(r, 0, matches[i].index)
               \o matches[i].beforeChar
               \o spacedTag(r, matches[i].index - 1,
                            matches[i].index + matches[i].length, tag)
               \o SubstringFrom(r, matches[i].index + matches[i].length),
            tag)

replaceFlexible(s, index, tag) ==
    replaceLoop(flexibleMatches(s, index), Len(flexibleMatches(s, index)), s, tag)

\* the fallback for a key of another shape: restored.replace(exactPattern, tag)
replacePlain(s, placeholder, tag) ==
    ReplaceFrom(s, literalLens(s, placeholder), [i \in 1..Len(s) |-> tag], 1)

\* one round of the for loop over sortedEntries
restoreEntry(r, placeholder, tag) ==
    IF indexMatch(placeholder) # <<>>
    THEN IF exactPatternTest(r, placeholder)
         THEN replaceExact(r, placeholder, tag)
         ELSE replaceFlexible(r, indexMatch(placeholder), tag)
    ELSE replacePlain(r, placeholder, tag)

RECURSIVE restoreLoop(_, _, _)
restoreLoop(entries, i, r) ==
    IF i > Len(entries) THEN r
    ELSE restoreLoop(entries, i + 1, restoreEntry(r, entries[i][1], entries[i][2]))

restoreTags(s, map) == restoreLoop(sortedEntries(map), 1, s)

----------------------------------------------------------------------------
(* The parts of the state a specification does not use stay as they are    *)

TagIdle ==
    /\ text = <<>>
    /\ processedText = <<>>
    /\ tagMap = <<>>
    /\ corruption = "none"
    /\ translated = <<>>
    /\ restored = <<>>
    /\ tpc = "idle"

HttpIdle ==
    /\ script = "none"
    /\ inputs = <<>>
    /\ promises = <<>>
    /\ reqs = <<>>
    /\ hpc = "off"

RunIdle ==
    /\ disk = <<>>
    /\ trackingOnDisk = {}
    /\ translatedFiles = {}
    /\ rpc = "off"
    /\ cursor = 0
    /\ maxFiles = 0
    /\ stats = [processed |-> 0, skipped |-> 0]
    /\ runs = 0
    /\ seen = <<>>
    /\ parsed = {}
    /\ sent = {}
    /\ rewritten = {}
    /\ skippedFiles = {}
    /\ loaded = {}

PipeIdle ==
    /\ stringKind = "none"
    /\ key = <<>>
    /\ hasUsername = FALSE
    /\ entryTagMap = <<>>
    /\ originalParts = <<>>
    /\ translatedParts = <<>>
    /\ finalTranslation = <<>>
    /\ ppc = "off"
    /\ calls = 0
    /\ fellBack = FALSE

PassIdle ==
    /\ passInput = <<>>
    /\ passHonorificIn = <<>>
    /\ passText = <<>>
    /\ passStage = 0

ObjIdle ==
    /\ obj = <<>>
    /\ result = <<>>

FixIdle ==
    /\ fileParses = TRUE
    /\ fileData = <<>>
    /\ fileBefore = <<>>
    /\ fixReturns = <<>>

----------------------------------------------------------------------------
(* The tag round trip on one string: extraction, a translation stage that  *)
(* returns the placeholder text as it is or with its placeholders damaged, *)
(* and restoration.                                                        *)

\* the number of pieces an input string is made of, at most
MaxPieces == 3

TagPieces ==
    { <<LB, Kana, RB>>, <<LB, "r", "=", Kana, RB>>,
      <<"a">>, <<" ">>, <<Kana>>, <<"_">>, <<"%">>, <<LB>>, <<RB>>,
      Placeholder(0), Underscores3 \o TAG \o <<"0">> }

\* the strings made of at most n pieces
RECURSIVE Texts(_, _)
Texts(pieces, n) ==
    IF n = 0 THEN {<<>>}
    ELSE Texts(pieces, n - 1) \cup {t \o p : t \in Texts(pieces, n - 1), p \in pieces}

\* what the translation stage does to a placeholder ___TAG<N>___
Corruptions == {"none", "lead", "bare", "lower", "drop"}

\* the length of a placeholder ___TAG<digits>___ at position i, 0 when none
TokenLen(s, i) ==
    IF /\ MatchAt(s, i, Underscores3 \o TAG)
       /\ DigitsLen(s, i + 6) >= 1
       /\ MatchAt(s, i + 6 + DigitsLen(s, i + 6), Underscores3)
    THEN 9 + DigitsLen(s, i + 6) ELSE 0

\* a placeholder of length l as the translation stage returns it
Corrupted(token, kind) ==
    CASE kind = "lead" -> SubSeq(token, 3, Len(token))
      [] kind = "bare" -> SubSeq(token, 4, Len(token))
      [] kind = "lower" -> [k \in 1..Len(token) |-> ToLower(token[k])]
      [] OTHER -> <<>>

Corrupt(s, kind) ==
    IF kind = "none" THEN s
    ELSE ReplaceFrom(s, [i \in 1..Len(s) |-> TokenLen(s, i)],
            [i \in 1..Len(s) |-> Corrupted(SubSeq(s, i, i + TokenLen(s, i) - 1), kind)], 1)

TagInit ==
    /\ text \in Texts(TagPieces, MaxPieces)
    /\ processedText = <<>>
    /\ tagMap = <<>>
    /\ corruption = "none"
    /\ translated = <<>>
    /\ restored = <<>>
    /\ tpc = "start"
    /\ HttpIdle
    /\ RunIdle
    /\ PipeIdle
    /\ PassIdle
    /\ ObjIdle
    /\ FixIdle

Extract ==
    /\ tpc = "start"
    /\ processedText' = extractAndPreserveTags(text).processedText
    /\ tagMap' = extractAndPreserveTags(text).tagMap
    /\ tpc' = "extracted"
    /\ UNCHANGED <<text, corruption, translated, restored>>
    /\ UNCHANGED <<httpVars, runVars, pipeVars, passVars, objVars, fixVars>>

Translate ==
    /\ tpc = "extracted"
    /\ \E c \in Corruptions :
          /\ corruption' = c
          /\ translated' = Corrupt(processedText, c)
    /\ tpc' = "translated"
    /\ UNCHANGED <<text, processedText, tagMap, restored>>
    /\ UNCHANGED <<httpVars, runVars, pipeVars, passVars, objVars, fixVars>>

Restore ==
    /\ tpc = "translated"
    /\ restored' = restoreTags(translated, tagMap)
    /\ tpc' = "restored"
    /\ UNCHANGED <<text, processedText, tagMap, corruption, translated>>
    /\ UNCHANGED <<httpVars, runVars, pipeVars, passVars, objVars, fixVars>>

TagNext == Extract \/ Translate \/ Restore

SpecTags == TagInit /\ [][TagNext]_vars

----------------------------------------------------------------------------
(* Properties of the tag round trip                                        *)

HasToken(s) == \E i \in 1..Len(s) : TokenLen(s, i) > 0

\* the text TAG followed by a digit
HasTagDigit(s) == TagDigitsAt(s, 1) > 0

RECURSIVE Brackets(_)
Brackets(s) ==
    IF s = <<>> THEN <<>>
    ELSE (IF Head(s) \in {LB, RB} THEN <<Head(s)>> ELSE <<>>) \o Brackets(Tail(s))

\* the brackets pair up and do not nest: they read LB RB LB RB ...
Balanced(s) ==
    /\ Len(Brackets(s)) % 2 = 0
    /\ \A i \in 1..Len(Brackets(s)) :
          Brackets(s)[i] = (IF i % 2 = 1 THEN LB ELSE RB)

\* the first position from i on that holds the character c, 0 when none
RECURSIVE IndexOfFrom(_, _, _)
IndexOfFrom(s, c, i) ==
    IF i > Len(s) THEN 0
    ELSE IF s[i] = c THEN i
    ELSE IndexOfFrom(s, c, i + 1)

\* the bracket spans of a string from position i on, left to right: from
\* each opening bracket to the next closing bracket
RECURSIVE BracketSpans(_, _)
BracketSpans(s, i) ==
    IF IndexOfFrom(s, LB, i) = 0 THEN <<>>
    ELSE IF IndexOfFrom(s, RB, IndexOfFrom(s, LB, i)) = 0 THEN <<>>
    ELSE <<SubSeq(s, IndexOfFrom(s, LB, i), IndexOfFrom(s, RB, IndexOfFrom(s, LB, i)))>>
         \o BracketSpans(s, IndexOfFrom(s, RB, IndexOfFrom(s, LB, i)) + 1)

\* the string s from the 0-based offset from on, in which the k-th match
\* and those after it are replaced by reps[k], ... and the rest is as it was
RECURSIVE SpansReplaced(_, _, _, _, _)
SpansReplaced(s, matches, reps, k, from) ==
    IF k > Len(matches) THEN SubstringFrom(s, from)
    ELSE Substring(s, from, matches[k].index) \o reps[k]
         \o SpansReplaced(s, matches, reps, k + 1,
                          matches[k].index + Len(matches[k].fullTag))

\* the first entry of the map whose key stands at position i, 0 when none
RECURSIVE KeyAt(_, _, _, _)
KeyAt(s, i, map, e) ==
    IF e > Len(map) THEN 0
    ELSE IF MatchAt(s, i, map[e][1]) THEN e
    ELSE KeyAt(s, i, map, e + 1)

\* one pass over s, left to right, that puts for every key of the map found
\* its value
Substituted(s, map) ==
    ReplaceFrom(s,
        [i \in 1..Len(s) |->
            IF KeyAt(s, i, map, 1) = 0 THEN 0 ELSE Len(map[KeyAt(s, i, map, 1)][1])],
        [i \in 1..Len(s) |->
            IF KeyAt(s, i, map, 1) = 0 THEN <<>> ELSE map[KeyAt(s, i, map, 1)][2]],
        1)

Count(seq, v) == Cardinality({i \in 1..Len(seq) : seq[i] = v})

C9_AsStated ==
    tpc # "start"
        => processedText =
              SpansReplaced(text, tagMatches(text),
                  [k \in 1..Len(tagMatches(text)) |-> Placeholder(k - 1)], 1, 0)

\* C9, amended: with N spans found, the k-th span from the left (k from 0)
\* is replaced by the placeholder ___TAG<N-1-k>___: the indices read
\* N-1 .. 0 from left to right.
C9_ReverseNumbering ==
    tpc # "start"
        => processedText =
              SpansReplaced(text, tagMatches(text),
                  [k \in 1..Len(tagMatches(text)) |->
                      Placeholder(Len(tagMatches(text)) - k)], 1, 0)

C9_Witness ==
    /\ tpc = "extracted"
    /\ Len(tagMatches(text)) >= 2
    /\ Includes(processedText, Placeholder(1) \o Placeholder(0))

\* what C10 says of the result of extraction: as many entries as spans, the
\* keys pairwise distinct placeholders, the values the spans with both of
\* their brackets, and the input back from the processed text
ExtractionInverts ==
    LET spans == [k \in 1..Len(tagMatches(text)) |-> tagMatches(text)[k].fullTag]
        keys == [e \in 1..Len(tagMap) |-> tagMap[e][1]]
        values == [e \in 1..Len(tagMap) |-> tagMap[e][2]]
    IN /\ Len(tagMap) = Len(spans)
       /\ \A e \in 1..Len(keys) : TokenLen(keys[e], 1) = Len(keys[e])
       /\ \A e, f \in 1..Len(keys) : e # f => keys[e] # keys[f]
       /\ \A e \in 1..Len(values) :
             /\ Head(values[e]) = LB
             /\ values[e][Len(values[e])] = RB
             /\ Count(values, values[e]) = Count(spans, values[e])
       /\ Substituted(processedText, tagMap) = text

\* C10 as stated: for an input without a placeholder token ___TAG<N>___.
C10_AsStated ==
    (tpc # "start" /\ ~HasToken(text)) => ExtractionInverts

\* C10, amended: for an input without placeholder-like text (the letters
\* TAG followed by a digit), the tag map has one entry per span found, the
\* keys are pairwise distinct placeholders, each value is a span with both
\* brackets, and putting the values for the placeholders in the processed
\* text gives the input back, character for character.
C10_ExtractionInverts ==
    (tpc # "start" /\ ~HasTagDigit(text)) => ExtractionInverts

C10_Witness ==
    /\ tpc = "extracted"
    /\ ~HasTagDigit(text)
    /\ Len(tagMap) >= 2
    /\ Includes(text, <<" ">>)

----------------------------------------------------------------------------
(* translateWithSugoi: one call after the other, each awaited by its       *)
(* caller. The service answers a request with a response body, a transport *)
(* error or nothing within the timeout.                                    *)

\* SUGOI_PORTS.length; fix-newlines.js has the one SUGOI_PORT
NumPorts == 1

\* requestFormats.length
NumFormats == 1

\* the calls a caller makes, at most
MaxCalls == 3

Scripts == {"translate-values", "fix-newlines"}

\* !japaneseText, japaneseText.trim() === '', and any other text
InputKinds == {"empty", "blank", "text"}

\* The response bodies: a JSON string, a JSON object with a content,
\* translation or text field, a JSON object without, the JSON null, and a
\* body that is not JSON.
Bodies == {"string", "objectField", "objectPlain", "null", "garbage"}

\* resolve(japaneseText) with a changed argument
fallbackValueEmpty == "empty"

\* the argument of resolve(japaneseText)
fallbackValue == "original"

\* resolve(v) of the promise of call c: the first call settles it
Resolve(ps, c, v) ==
    IF ps[c].state = "pending"
    THEN [ps EXCEPT ![c] = [state |-> "resolved", value |-> v]]
    ELSE ps

\* tryTranslation(portIndex, formatIndex) of call c
tryTranslation(ps, rs, c, portIndex, formatIndex) ==
    IF portIndex >= NumPorts
    THEN [promises |-> Resolve(ps, c, fallbackValue), reqs |-> rs]
    ELSE [promises |-> ps,
          reqs |-> Append(rs, [call |-> c, port |-> portIndex, format |-> formatIndex,
                               state |-> "open", outcome |-> "none"])]

\* the same port and format once more
tryAgain(ps, rs, r) ==
    tryTranslation(ps, rs, rs[r].call, rs[r].port, rs[r].format)

\* the next format, or the first format of the next port
tryNext(ps, rs, r) ==
    IF rs[r].format < NumFormats - 1
    THEN tryTranslation(ps, rs, rs[r].call, rs[r].port, rs[r].format + 1)
    ELSE tryTranslation(ps, rs, rs[r].call, rs[r].port + 1, 0)

\* what a handler of translate-values.js does after a failure of request r,
\* and what one of fix-newlines.js does
afterFailure(ps, rs, r) ==
    IF script = "translate-values" THEN tryNext(ps, rs, r)
    ELSE [promises |-> Resolve(ps, rs[r].call, fallbackValue), reqs |-> rs]

\* res.on('end'): JSON.parse(data) and what follows, for request r
afterEnd(ps, rs, r, body) ==
    IF script = "translate-values"
    THEN CASE body = "string" ->
                [promises |-> Resolve(ps, rs[r].call, "translation"), reqs |-> rs]
           [] body = "objectField" ->
                [promises |-> Resolve(ps, rs[r].call, "field"), reqs |-> rs]
           [] body = "objectPlain" ->
                [promises |-> Resolve(ps, rs[r].call, "stringified"), reqs |-> rs]
           \* result.content of null throws, JSON.parse of garbage throws
           [] OTHER -> tryNext(ps, rs, r)
    ELSE CASE body = "string" ->
                [promises |-> Resolve(ps, rs[r].call, "translation"), reqs |-> rs]
           [] body = "garbage" ->
                [promises |-> Resolve(ps, rs[r].call, fallbackValue), reqs |-> rs]
           [] OTHER ->
                [promises |-> Resolve(ps, rs[r].call, "stringified"), reqs |-> rs]

Closed(rs, r, st, out) == [rs EXCEPT ![r].state = st, ![r].outcome = out]

HttpInit ==
    /\ script \in Scripts
    /\ inputs = <<>>
    /\ promises = <<>>
    /\ reqs = <<>>
    /\ hpc = "idle"
    /\ TagIdle
    /\ RunIdle
    /\ PipeIdle
    /\ PassIdle
    /\ ObjIdle
    /\ FixIdle

\* translateWithSugoi(japaneseText): the executor of the new promise runs
Call ==
    /\ hpc = "idle"
    /\ Len(inputs) < MaxCalls
    /\ \E kind \in InputKinds :
          /\ inputs' = Append(inputs, kind)
          /\ IF kind \in {"empty", "blank"}
             THEN /\ promises' = Append(promises, [state |-> "resolved", value |-> "original"])
                  /\ reqs' = reqs
             ELSE LET t == tryTranslation(
                              Append(promises, [state |-> "pending", value |-> "none"]),
                              reqs, Len(inputs) + 1, 0, 0)
                  IN /\ promises' = t.promises
                     /\ reqs' = t.reqs
    /\ hpc' = "awaiting"
    /\ UNCHANGED script
    /\ UNCHANGED <<tagVars, runVars, pipeVars, passVars, objVars, fixVars>>

\* the caller's await ends once the promise is settled
Resume ==
    /\ hpc = "awaiting"
    /\ promises[Len(promises)].state # "pending"
    /\ hpc' = "idle"
    /\ UNCHANGED <<script, inputs, promises, reqs>>
    /\ UNCHANGED <<tagVars, runVars, pipeVars, passVars, objVars, fixVars>>

\* the response of request r has ended
OnEnd ==
    /\ \E r \in 1..Len(reqs), body \in Bodies :
          /\ reqs[r].state = "open"
          /\ LET out == IF body \in {"garbage", "null"} THEN body ELSE "ok"
                 t == afterEnd(promises, Closed(reqs, r, "done", out), r, body)
             IN /\ promises' = t.promises
                /\ reqs' = t.reqs
    /\ UNCHANGED <<script, inputs, hpc>>
    /\ UNCHANGED <<tagVars, runVars, pipeVars, passVars, objVars, fixVars>>

\* req.on('error'): a transport error of an open request, or the error that
\* follows req.destroy()
OnError ==
    /\ \E r \in 1..Len(reqs) :
          /\ reqs[r].state \in {"open", "destroyed"}
          /\ LET out == IF reqs[r].state = "open" THEN "error" ELSE reqs[r].outcome
                 t == afterFailure(promises, Closed(reqs, r, "done", out), r)
             IN /\ promises' = t.promises
                /\ reqs' = t.reqs
    /\ UNCHANGED <<script, inputs, hpc>>
    /\ UNCHANGED <<tagVars, runVars, pipeVars, passVars, objVars, fixVars>>

\* req.on('timeout'): req.destroy() and the fallback
OnTimeout ==
    /\ \E r \in 1..Len(reqs) :
          /\ reqs[r].state = "open"
          /\ LET t == afterFailure(promises, Closed(reqs, r, "destroyed", "timeout"), r)
             IN /\ promises' = t.promises
                /\ reqs' = t.reqs
    /\ UNCHANGED <<script, inputs, hpc>>
    /\ UNCHANGED <<tagVars, runVars, pipeVars, passVars, objVars, fixVars>>

\* an open request gets its response, its error or its timeout
Deliver == OnEnd \/ OnError \/ OnTimeout

HttpNext == Call \/ Resume \/ OnEnd \/ OnError \/ OnTimeout

SpecHttp == HttpInit /\ [][HttpNext]_vars

\* The socket timeout of 60 s ends every request that gets neither a
\* response nor an error, and an awaiting caller goes on.
SpecHttpFair == SpecHttp /\ WF_vars(Deliver) /\ WF_vars(Resume)

----------------------------------------------------------------------------
(* Properties of translateWithSugoi                                        *)

RequestsOf(c, p) == {r \in 1..Len(reqs) : reqs[r].call = c /\ reqs[r].port = p}

\* every request of call c failed: transport error, timeout, or a body that
\* is not JSON
AllFailed(c) ==
    \A r \in 1..Len(reqs) :
        reqs[r].call = c => reqs[r].outcome \in {"error", "timeout", "garbage"}

C4_Safe ==
    \A c \in 1..Len(promises) :
        /\ promises[c].state # "rejected"
        /\ \A p \in 0..(NumPorts - 1) : Cardinality(RequestsOf(c, p)) <= 1
        /\ \A r \in 1..Len(reqs) : reqs[r].port < NumPorts
        /\ (promises[c].state = "resolved" /\ AllFailed(c))
              => promises[c].value = "original"
        /\ inputs[c] \in {"empty", "blank"}
              => /\ promises[c] = [state |-> "resolved", value |-> "original"]
                 /\ \A r \in 1..Len(reqs) : reqs[r].call # c

----------------------------------------------------------------------------
(* main, processDirectory and processJsonFile of translate-values.js: runs *)
(* over one directory, each of which may be interrupted.                   *)

\* the candidate files of the directory, in the order of the traversal
NumFiles == 10

\* the first files of the directory hold any content and their calls have
\* any outcome, the others are plain and their calls succeed
ArbitraryFiles == 2

\* the largest file limit given on the command line
MaxLimit == 2

\* the runs over the directory
MaxRuns == 2

\* stats.processed % 10 === 0
SaveEvery == 10

\* What a file holds: a JSON object without the __translated__ field, one
\* whose field is true or 'true', one whose field has another value, text
\* that is not JSON, and the object a run has written, with translations
\* or with the fallback texts.
Contents == {"plain", "markerTrue", "markerOther", "unparseable"}

Files == 1..NumFiles

Layouts ==
    {[f \in Files |-> IF f <= ArbitraryFiles THEN p[f] ELSE "plain"] :
        p \in [1..ArbitraryFiles -> Contents]}

\* What processJsonFile writes to file f: the translations or, when every
\* call fell back, the texts the calls were made for. The calls of the
\* first files have any outcome, those of the others succeed.
WrittenAs(f) == IF f <= ArbitraryFiles THEN {"rewritten", "fallback"} ELSE {"rewritten"}

\* the tracking file before the first run: absent or empty, or listing a file
InitialTracking == {{}, {1}}

\* translatedFiles.has(normalizedPath), and the check without it
isFileTranslatedNever(f, set) == FALSE

isFileTranslated(f, set) == f \in set

\* translatedFiles.add(normalizedPath), and a mark that adds nothing
markFileAsTranslatedNot(f, set) == set

markFileAsTranslated(f, set) == set \cup {f}

\* data['__translated__'] === 'true' || data['__translated__'] === true, and
\* the check that takes any marker
markerSaysDoneAny(content) == content \in {"markerTrue", "markerOther"}

markerSaysDone(content) == content = "markerTrue"

\* data.hasOwnProperty('__translated__')
hasMarker(content) == content \in {"markerTrue", "markerOther"}

\* a parser that takes any text
parsesAnything(content) == TRUE

\* JSON.parse(content) returns
parses(content) == content # "unparseable"

\* a limit that is never reached
limitReachedNever == FALSE

\* maxFiles !== null && stats.processed >= maxFiles; 0 stands for null
limitReached == maxFiles # 0 /\ stats.processed >= maxFiles

\* stats.processed % 10 === 0, and a run that never saves in the loop
savesNowNever(processed) == FALSE

savesNow(processed) == processed % SaveEvery = 0

\* what the run finds when it reaches file f: a file of the tracking set,
\* or else a file with the content it has on disk
Reached(f) == IF f \in translatedFiles THEN "tracked" ELSE disk[f]

RunInit ==
    /\ disk \in Layouts
    /\ trackingOnDisk \in InitialTracking
    /\ translatedFiles = {}
    /\ rpc = "idle"
    /\ cursor = 0
    /\ maxFiles = 0
    /\ stats = [processed |-> 0, skipped |-> 0]
    /\ runs = 1
    /\ seen = [f \in Files |-> "unreached"]
    /\ parsed = {}
    /\ sent = {}
    /\ rewritten = {}
    /\ skippedFiles = {}
    /\ loaded = {}
    /\ TagIdle
    /\ HttpIdle
    /\ PipeIdle
    /\ PassIdle
    /\ ObjIdle
    /\ FixIdle

\* main up to the call of processDirectory: the limit is read, the
\* connection test passes, the tracking file is loaded
Start ==
    /\ rpc = "idle"
    /\ maxFiles' \in 0..MaxLimit
    /\ translatedFiles' = trackingOnDisk
    /\ stats' = [processed |-> 0, skipped |-> 0]
    /\ cursor' = 1
    /\ rpc' = "loop"
    /\ loaded' = trackingOnDisk
    /\ UNCHANGED <<disk, trackingOnDisk, runs, seen, parsed, sent, rewritten, skippedFiles>>
    /\ UNCHANGED <<tagVars, httpVars, pipeVars, passVars, objVars, fixVars>>

\* main returns early: an invalid file count, or no connection
Refuse ==
    /\ rpc = "idle"
    /\ rpc' = "ended"
    /\ UNCHANGED <<disk, trackingOnDisk, translatedFiles, cursor, maxFiles, stats, runs,
                   seen, parsed, sent, rewritten, skippedFiles>>
    /\ UNCHANGED loaded
    /\ UNCHANGED <<tagVars, httpVars, pipeVars, passVars, objVars, fixVars>>

\* the file is in the tracking set: stats.skipped++ and continue
SkipTracked ==
    /\ rpc = "loop" /\ cursor <= NumFiles /\ ~limitReached
    /\ isFileTranslated(cursor, translatedFiles)
    /\ seen' = [seen EXCEPT ![cursor] = Reached(cursor)]
    /\ stats' = [stats EXCEPT !.skipped = @ + 1]
    /\ skippedFiles' = skippedFiles \cup {cursor}
    /\ cursor' = cursor + 1
    /\ UNCHANGED <<disk, trackingOnDisk, translatedFiles, rpc, maxFiles, runs,
                   parsed, sent, rewritten>>
    /\ UNCHANGED loaded
    /\ UNCHANGED <<tagVars, httpVars, pipeVars, passVars, objVars, fixVars>>

\* the file does not parse: continue
SkipUnreadable ==
    /\ rpc = "loop" /\ cursor <= NumFiles /\ ~limitReached
    /\ ~isFileTranslated(cursor, translatedFiles)
    /\ ~parses(disk[cursor])
    /\ seen' = [seen EXCEPT ![cursor] = Reached(cursor)]
    /\ parsed' = parsed \cup {cursor}
    /\ cursor' = cursor + 1
    /\ UNCHANGED <<disk, trackingOnDisk, translatedFiles, rpc, maxFiles, stats, runs,
                   sent, rewritten, skippedFiles>>
    /\ UNCHANGED loaded
    /\ UNCHANGED <<tagVars, httpVars, pipeVars, passVars, objVars, fixVars>>

\* the file holds the marker: it is marked in the tracking set and skipped
SkipMarked ==
    /\ rpc = "loop" /\ cursor <= NumFiles /\ ~limitReached
    /\ ~isFileTranslated(cursor, translatedFiles)
    /\ parses(disk[cursor])
    /\ markerSaysDone(disk[cursor])
    /\ seen' = [seen EXCEPT ![cursor] = Reached(cursor)]
    /\ parsed' = parsed \cup {cursor}
    /\ translatedFiles' = markFileAsTranslated(cursor, translatedFiles)
    /\ stats' = [stats EXCEPT !.skipped = @ + 1]
    /\ skippedFiles' = skippedFiles \cup {cursor}
    /\ cursor' = cursor + 1
    /\ UNCHANGED <<disk, trackingOnDisk, rpc, maxFiles, runs, sent, rewritten>>
    /\ UNCHANGED loaded
    /\ UNCHANGED <<tagVars, httpVars, pipeVars, passVars, objVars, fixVars>>

\* processJsonFile up to its await: the file is read and parsed again, the
\* marker is deleted from the object in memory, translateObjectValues starts
BeginFile ==
    /\ rpc = "loop" /\ cursor <= NumFiles /\ ~limitReached
    /\ ~isFileTranslated(cursor, translatedFiles)
    /\ parses(disk[cursor])
    /\ ~markerSaysDone(disk[cursor])
    /\ seen' = [seen EXCEPT ![cursor] = Reached(cursor)]
    /\ parsed' = parsed \cup {cursor}
    /\ sent' = sent \cup {cursor}
    /\ rpc' = "translating"
    /\ UNCHANGED <<disk, trackingOnDisk, translatedFiles, cursor, maxFiles, stats, runs,
                   rewritten, skippedFiles>>
    /\ UNCHANGED loaded
    /\ UNCHANGED <<tagVars, httpVars, pipeVars, passVars, objVars, fixVars>>

\* processJsonFile after its await, and the rest of the loop body: the
\* file is written without the marker, with translations or, when every
\* call fell back, with the texts the calls were made for; it is marked,
\* stats.processed++, and the tracking file is saved on every tenth
\* processed file
FinishFile ==
    /\ rpc = "translating"
    /\ \E written \in WrittenAs(cursor) :
          disk' = [disk EXCEPT ![cursor] = written]
    /\ rewritten' = rewritten \cup {cursor}
    /\ translatedFiles' = markFileAsTranslated(cursor, translatedFiles)
    /\ stats' = [stats EXCEPT !.processed = @ + 1]
    /\ trackingOnDisk' = IF savesNow(stats.processed + 1)
                         THEN markFileAsTranslated(cursor, translatedFiles)
                         ELSE trackingOnDisk
    /\ cursor' = cursor + 1
    /\ rpc' = "loop"
    /\ UNCHANGED <<maxFiles, runs, seen, parsed, sent, skippedFiles>>
    /\ UNCHANGED loaded
    /\ UNCHANGED <<tagVars, httpVars, pipeVars, passVars, objVars, fixVars>>

\* the loop ends, at the end of the directory or at the limit, and main
\* saves the tracking file
EndOfRun ==
    /\ rpc = "loop"
    /\ cursor > NumFiles \/ limitReached
    /\ trackingOnDisk' = translatedFiles
    /\ rpc' = "done"
    /\ UNCHANGED <<disk, translatedFiles, cursor, maxFiles, stats, runs,
                   seen, parsed, sent, rewritten, skippedFiles>>
    /\ UNCHANGED loaded
    /\ UNCHANGED <<tagVars, httpVars, pipeVars, passVars, objVars, fixVars>>

\* the process is interrupted: what is in memory is lost
Crash ==
    /\ rpc \in {"loop", "translating"}
    /\ rpc' = "interrupted"
    /\ translatedFiles' = {}
    /\ UNCHANGED <<disk, trackingOnDisk, cursor, maxFiles, stats, runs,
                   seen, parsed, sent, rewritten, skippedFiles>>
    /\ UNCHANGED loaded
    /\ UNCHANGED <<tagVars, httpVars, pipeVars, passVars, objVars, fixVars>>

\* the script is started again on the same directory
Restart ==
    /\ rpc \in {"done", "ended", "interrupted"}
    /\ runs < MaxRuns
    /\ runs' = runs + 1
    /\ rpc' = "idle"
    /\ cursor' = 0
    /\ maxFiles' = 0
    /\ stats' = [processed |-> 0, skipped |-> 0]
    /\ translatedFiles' = {}
    /\ seen' = [f \in Files |-> "unreached"]
    /\ parsed' = {}
    /\ sent' = {}
    /\ rewritten' = {}
    /\ skippedFiles' = {}
    /\ loaded' = {}
    /\ UNCHANGED <<disk, trackingOnDisk>>
    /\ UNCHANGED <<tagVars, httpVars, pipeVars, passVars, objVars, fixVars>>

RunNext ==
    \/ Start \/ Refuse \/ SkipTracked \/ SkipUnreadable \/ SkipMarked
    \/ BeginFile \/ FinishFile \/ EndOfRun \/ Crash \/ Restart

SpecRun == RunInit /\ [][RunNext]_vars

----------------------------------------------------------------------------
(* Properties of a run                                                     *)

\* C6: a file that is in the tracking set when the run reaches it is not
\* parsed, not sent to the translator and not rewritten by that run, and it
\* is counted as skipped.
C6_TrackedUntouched ==
    \A f \in DOMAIN seen :
        seen[f] = "tracked" =>
            /\ f \notin parsed
            /\ f \notin sent
            /\ f \notin rewritten
            /\ f \in skippedFiles
            /\ stats.skipped >= 1

C6_Witness ==
    /\ runs = 2
    /\ rpc = "done"
    /\ \E f \in DOMAIN seen : seen[f] = "tracked" /\ disk[f] = "rewritten"
    /\ \E f \in DOMAIN seen : seen[f] = "tracked" /\ disk[f] = "plain"

\* the run is between two files, has ended, or was interrupted
BetweenFiles == rpc \in {"loop", "done", "interrupted"}

\* C7 as stated: between two files of a run, and when the run is
\* interrupted, the tracking file on disk lists every file the run has
\* rewritten.
C7_AsStated == BetweenFiles => rewritten \subseteq trackingOnDisk

\* C7: the tracking file is saved on every tenth processed file and at the
\* end of the run: at every point fewer than ten of the files the run has
\* rewritten are missing from the tracking file on disk, right after a
\* tenth file none is, and after a run that ended normally none is.
C7_SavedEveryTenth ==
    /\ Cardinality(rewritten \ trackingOnDisk) < SaveEvery
    /\ (rpc = "loop" /\ stats.processed > 0 /\ stats.processed % SaveEvery = 0)
          => rewritten \subseteq trackingOnDisk
    /\ rpc = "done" => rewritten \subseteq trackingOnDisk

C7_Witness ==
    /\ rpc = "loop"
    /\ stats.processed = SaveEvery
    /\ Cardinality(rewritten) = SaveEvery
    /\ rewritten \subseteq trackingOnDisk

\* C8 as stated: a file that holds the marker, whatever its value, is not
\* sent to the translator, and after the run it holds no marker.
C8_AsStated ==
    \A f \in DOMAIN seen :
        hasMarker(seen[f]) =>
            /\ f \notin sent
            /\ rpc = "done" => ~hasMarker(disk[f])

\* C8: a file whose marker is true or 'true' is treated as done: it is not
\* translated and not rewritten, so it keeps its marker on disk, and it is
\* added to the tracking set. A file whose marker has any other value is
\* translated like a file without marker and is written without the marker.
C8_MarkerTrueSkipsOtherStrips ==
    \A f \in DOMAIN seen :
        /\ seen[f] = "markerTrue" =>
              /\ f \notin sent
              /\ f \notin rewritten
              /\ disk[f] = "markerTrue"
              /\ f \in skippedFiles
              /\ rpc # "interrupted" => f \in translatedFiles
              /\ rpc = "done" => f \in trackingOnDisk
        /\ seen[f] = "markerOther" =>
              /\ f \in sent
              /\ f \notin skippedFiles
              /\ (cursor > f \/ f \in rewritten) => (f \in rewritten /\ ~hasMarker(disk[f]))

C8_Witness ==
    /\ rpc = "done"
    /\ seen[1] = "markerTrue" /\ disk[1] = "markerTrue"
    /\ seen[2] = "markerOther" /\ disk[2] = "rewritten"

----------------------------------------------------------------------------
(* translateObjectValues on one string: the key of an object entry, or an  *)
(* item of an array                                                        *)

\* '%usernameusernameuserna%'
Marker == <<"%", "u", "s", "e", "r", "n", "a", "m", "e",
           "u", "s", "e", "r", "n", "a", "m", "e",
           "u", "s", "e", "r", "n", "a", "%">>

realNamePlaceholder == <<"X", "e", "o", "n", "i", "s">>

\* the length of the run of characters other than c from position i on
RunNot(s, i, c) ==
    IF i > Len(s) THEN 0
    ELSE CHOOSE n \in 0..(Len(s) - i + 1) :
            /\ \A k \in i..(i + n - 1) : s[k] # c
            /\ i + n > Len(s) \/ s[i + n] = c

\* /%user[^%]*na%/gi at position i, the closing % at position j
usernameTail(s, i, j) ==
    IF j <= Len(s) /\ j >= i + 7 /\ MatchAtCI(s, j - 2, <<"n", "a">>)
    THEN j - i + 1 ELSE 0

\* /%user[^%]*na%/gi: the length of the match at position i, 0 when none
usernamePattern(s, i) ==
    IF MatchAtCI(s, i, <<"%", "u", "s", "e", "r">>)
    THEN usernameTail(s, i, i + 5 + RunNot(s, i + 5, "%"))
    ELSE 0

usernameLens(s) == [i \in 1..Len(s) |-> usernamePattern(s, i)]

\* key.match(usernamePattern) finds something
usernameMatches(s) == \E i \in 1..Len(s) : usernamePattern(s, i) > 0

\* s.replace(usernamePattern, rep)
replaceUsernames(s, rep) ==
    ReplaceFrom(s, usernameLens(s), [i \in 1..Len(s) |-> rep], 1)

\* s.replace(new RegExp(lit, 'gi'), rep)
replaceAllCI(s, lit, rep) ==
    ReplaceFrom(s, [i \in 1..Len(s) |-> IF MatchAtCI(s, i, lit) THEN Len(lit) ELSE 0],
                [i \in 1..Len(s) |-> rep], 1)

\* /<br\s*\/?>/gi after <br and the whitespace, at position j
brTail(s, i, j) ==
    IF MatchAt(s, j, <<"/", ">">>) THEN j + 2 - i
    ELSE IF MatchAt(s, j, <<">">>) THEN j + 1 - i
    ELSE 0

\* /<br\s*\/?>/gi
brPattern(s, i) ==
    IF MatchAtCI(s, i, <<"<", "b", "r">>)
    THEN brTail(s, i, i + 3 + RunIn(s, i + 3, {" ", NL, "\t"}))
    ELSE 0

removeBr(s) ==
    ReplaceFrom(s, [i \in 1..Len(s) |-> brPattern(s, i)], [i \in 1..Len(s) |-> <<>>], 1)

RECURSIVE trimStart(_)
trimStart(s) == IF s # <<>> /\ IsSpace(s[1]) THEN trimStart(Tail(s)) ELSE s

RECURSIVE trimEnd(_)
trimEnd(s) ==
    IF s # <<>> /\ IsSpace(s[Len(s)]) THEN trimEnd(SubSeq(s, 1, Len(s) - 1)) ELSE s

\* s.trim()
trim(s) == trimEnd(trimStart(s))

\* the clean-up of what the service returned: <br>, <b> and </b> removed,
\* then trim
cleanUp(s) ==
    trim(replaceAllCI(replaceAllCI(removeBr(s), <<"<", "b", ">">>, <<>>),
                      <<"<", "/", "b", ">">>, <<>>))

nameVariations ==
    <<<<"X", "e", "o", "n", "i", "s">>, <<"x", "e", "o", "n", "i", "s">>, <<"X", "E", "O", "N", "I", "S">>,
      <<"X", "e", "o", "i", "s">>, <<"x", "e", "o", "i", "s">>, <<"X", "E", "O", "I", "S">>,
      <<"X", "e", "o", "n", "s">>, <<"x", "e", "o", "n", "s">>, <<"X", "E", "O", "N", "S">>,
      <<"X", "e", "o", "n", "y", "s">>, <<"x", "e", "o", "n", "y", "s">>, <<"X", "E", "O", "N", "Y", "S">>,
      <<"X", "e", "o", "n", "y">>, <<"x", "e", "o", "n", "y">>, <<"X", "E", "O", "N", "Y">>,
      <<"X", "e", "o", "n", "i">>, <<"x", "e", "o", "n", "i">>, <<"X", "E", "O", "N", "I">>,
      <<"X", "e", "o", "n", "y", "i", "s">>, <<"x", "e", "o", "n", "y", "i", "s">>, <<"X", "E", "O", "N", "Y", "I", "S">>,
      <<"X", "e", "o", "n", "s", "i", "s">>, <<"x", "e", "o", "n", "s", "i", "s">>, <<"X", "E", "O", "N", "S", "I", "S">>,
      <<"X", "e", "o", "n">>, <<"x", "e", "o", "n">>, <<"X", "E", "O", "N">>>>

\* the shorter list of the second pass of the single-line path
nameVariationsShort ==
    <<<<"X", "e", "o", "n", "i", "s">>, <<"x", "e", "o", "n", "i", "s">>, <<"X", "E", "O", "N", "I", "S">>,
      <<"X", "e", "o", "i", "s">>, <<"x", "e", "o", "i", "s">>, <<"X", "E", "O", "I", "S">>,
      <<"X", "e", "o", "n", "s">>, <<"x", "e", "o", "n", "s">>, <<"X", "E", "O", "N", "S">>>>

\* for (const name of names) s = s.replace(new RegExp(name, 'gi'), marker)
\* (the string after one name is computed before the next name is taken)
RECURSIVE replaceNames(_, _, _)
replaceNames(s, names, k) ==
    IF k > Len(names) THEN s
    ELSE CHOOSE r \in {replaceNames(t, names, k + 1) :
                          t \in {replaceAllCI(s, names[k], Marker)}} : TRUE

USERNAME == <<"U", "S", "E", "R", "N", "A", "M", "E">>
PLACEHOLDER == <<"P", "L", "A", "C", "E", "H", "O", "L", "D", "E", "R">>
XYZ123 == <<"X", "Y", "Z", "1", "2", "3">>

\* [_\s-]
Separators == {"_", " ", NL, "\t", "-"}

technicalAfterXyz(s, i, j) ==
    IF MatchAtCI(s, j, XYZ123) THEN j + 6 + RunIn(s, j + 6, Separators) - i ELSE 0

technicalAfterPlaceholder(s, i, j) ==
    IF MatchAtCI(s, j, PLACEHOLDER)
    THEN technicalAfterXyz(s, i, j + 11 + RunIn(s, j + 11, Separators))
    ELSE 0

technicalAfterUnderscores(s, i, j) ==
    IF j > i /\ MatchAtCI(s, j, USERNAME)
    THEN technicalAfterPlaceholder(s, i, j + 8 + RunIn(s, j + 8, Separators))
    ELSE 0

\* /_+USERNAME[_\s-]*PLACEHOLDER[_\s-]*XYZ123[_\s-]*/gi
technicalPattern(s, i) == technicalAfterUnderscores(s, i, i + RunOf(s, i, "_"))

replaceTechnical(s) ==
    ReplaceFrom(s, [i \in 1..Len(s) |-> technicalPattern(s, i)],
                [i \in 1..Len(s) |-> Marker], 1)

\* a list without any honorific
commonHonorificsNone == {}

commonHonorifics ==
    { <<"s", "a", "n">>,
      <<"k", "u", "n">>,
      <<"c", "h", "a", "n">>,
      <<"s", "a", "m", "a">>,
      <<"s", "e", "n", "p", "a", "i">>,
      <<"s", "e", "n", "s", "e", "i">>,
      <<"d", "o", "n", "o">> }

toLowerCase(s) == [k \in 1..Len(s) |-> ToLower(s[k])]

\* where the honorific of a match at position i starts: after the marker
\* and \s*
honorificStart(s, i) == i + 24 + RunIn(s, i + 24, {" ", NL, "\t"})

\* the length of [a-z]+ there (with the i flag)
honorificLetters(s, i) == RunIn(s, honorificStart(s, i), Lower \cup Upper)

\* \b after the letters that end before position j
wordEnds(s, j) == j > Len(s) \/ ~IsWord(s[j])

\* /(%usernameusernameuserna%)\s*([a-z]+)\b/gi
honorificPattern(s, i) ==
    IF /\ MatchAtCI(s, i, Marker)
       /\ honorificLetters(s, i) >= 1
       /\ wordEnds(s, honorificStart(s, i) + honorificLetters(s, i))
    THEN honorificStart(s, i) + honorificLetters(s, i) - i
    ELSE 0

\* the replacer: username-honorific for a known honorific, else the match
honorificReplacer(s, i, len, word) ==
    IF toLowerCase(word) \in commonHonorifics
    THEN SubSeq(s, i, i + 23) \o <<"-">> \o word
    ELSE SubSeq(s, i, i + len - 1)

attachHonorifics(s) ==
    ReplaceFrom(s, [i \in 1..Len(s) |-> honorificPattern(s, i)],
        [i \in 1..Len(s) |->
            honorificReplacer(s, i, honorificPattern(s, i),
                SubSeq(s, honorificStart(s, i),
                       honorificStart(s, i) + honorificLetters(s, i) - 1))], 1)

\* /([a-zA-Z0-9])(%usernameusernameuserna%)([a-zA-Z0-9])/g -> '$1 $2 $3'
spaceBoth(s) ==
    ReplaceFrom(s,
        [i \in 1..Len(s) |->
            IF IsAlnum(s[i]) /\ MatchAt(s, i + 1, Marker)
               /\ i + 25 <= Len(s) /\ IsAlnum(s[i + 25])
            THEN 26 ELSE 0],
        [i \in 1..Len(s) |->
            <<s[i], " ">> \o Marker \o <<" ">>
            \o (IF i + 25 <= Len(s) THEN <<s[i + 25]>> ELSE <<>>)], 1)

\* /([a-zA-Z0-9])(%usernameusernameuserna%)(?!-)/g -> '$1 $2'
spaceBefore(s) ==
    ReplaceFrom(s,
        [i \in 1..Len(s) |->
            IF IsAlnum(s[i]) /\ MatchAt(s, i + 1, Marker)
               /\ ~(i + 25 <= Len(s) /\ s[i + 25] = "-")
            THEN 25 ELSE 0],
        [i \in 1..Len(s) |-> <<s[i], " ">> \o Marker], 1)

\* /(?<!-)(%usernameusernameuserna%)([a-zA-Z0-9])/g -> '$1 $2'
spaceAfter(s) ==
    ReplaceFrom(s,
        [i \in 1..Len(s) |->
            IF MatchAt(s, i, Marker) /\ ~(i > 1 /\ s[i - 1] = "-")
               /\ i + 24 <= Len(s) /\ IsAlnum(s[i + 24])
            THEN 25 ELSE 0],
        [i \in 1..Len(s) |->
            Marker \o <<" ">> \o (IF i + 24 <= Len(s) THEN <<s[i + 24]>> ELSE <<>>)], 1)

\* the curly apostrophes become ', the curly double quotes "
normalizeQuotes(s) ==
    [k \in 1..Len(s) |->
        IF s[k] = Curly THEN "'" ELSE IF s[k] = DoubleCurly THEN "\"" ELSE s[k]]

\* the passes after the last replacement of name variations: the final
\* username pass, the honorifics, the spacing, the quotes
finalPasses(s) ==
    normalizeQuotes(spaceAfter(spaceBefore(spaceBoth(
        attachHonorifics(replaceUsernames(s, Marker))))))

\* s.split('\n'): the part before the first \n, of length n, and the rest
RECURSIVE split(_)
splitAfter(s, n) ==
    IF n = Len(s) THEN <<s>>
    ELSE <<SubSeq(s, 1, n)>> \o split(SubSeq(s, n + 2, Len(s)))

split(s) == splitAfter(s, RunNot(s, 1, NL))

\* parts.join('\n')
RECURSIVE join(_)
join(parts) ==
    IF parts = <<>> THEN <<>>
    ELSE IF Len(parts) = 1 THEN parts[1]
    ELSE parts[1] \o <<NL>> \o join(Tail(parts))

\* What the service answers to a text, by the style of the answer: Japanese
\* characters become a word or a known honorific, the answer is in lower
\* case, loses its placeholders, is wrapped in markup, or breaks the line.
Styles == {"plain", "honorific", "lower", "dropTags", "markup", "twoLines"}

render(s, word) ==
    ReplaceFrom(s, [i \in 1..Len(s) |-> IF s[i] = Kana THEN 1 ELSE 0],
                [i \in 1..Len(s) |-> word], 1)

answer(s, style) ==
    CASE style = "plain" -> render(s, <<"a">>)
      [] style = "honorific" -> render(s, <<"s", "a", "n">>)
      [] style = "lower" -> toLowerCase(render(s, <<"a">>))
      [] style = "dropTags" -> Corrupt(render(s, <<"a">>), "drop")
      [] style = "markup" ->
            <<"<", "b", ">">> \o render(s, <<"a">>)
            \o <<"<", "/", "b", ">", "<", "B", "R", " ", "/", ">">>
      [] OTHER -> render(s, <<"a", NL, "b">>)

\* translateWithSugoi(s) as its caller sees it: the input for an empty or
\* blank input and for a failed request, else the answer
translateWithSugoi(s, outcome) ==
    IF trim(s) = <<>> \/ outcome = "fails" THEN s ELSE answer(s, outcome)

\* a request is made
requests(s) == IF trim(s) = <<>> THEN 0 ELSE 1

\* one part of a multi-line key, after the call
translatedPart(reply) ==
    replaceTechnical(replaceNames(cleanUp(reply), nameVariations, 1))

\* the multi-line path after the loop over the parts
finishLines(parts, map) ==
    finalPasses(
        replaceNames(
            restoreTags(
                replaceTechnical(replaceNames(join(parts), nameVariations, 1)),
                map),
            nameVariations, 1))

\* the name variations are replaced only if (hasUsername)
namesIf(s, has, names) == IF has THEN replaceNames(s, names, 1) ELSE s

\* the single-line path after the call
finishSingle(reply, has, map) ==
    finalPasses(
        namesIf(
            restoreTags(
                replaceTechnical(namesIf(cleanUp(reply), has, nameVariations)),
                map),
            has, nameVariationsShort))

\* the strings of the model: keys of entries and items of arrays
MaxKeyPieces == 3

KeyPieces ==
    { <<Kana>>, <<"a">>, <<" ">>, <<NL>>, <<Curly>>, <<"s", "a", "n">>,
      Marker, <<"%", "u", "s", "e", "r", "n", "a", "%">>, <<LB, Kana, RB>> }

Outcomes == {"fails"} \cup Styles

PipeInit ==
    /\ stringKind \in {"entry", "item"}
    /\ key \in Texts(KeyPieces, MaxKeyPieces)
    /\ hasUsername = FALSE
    /\ entryTagMap = <<>>
    /\ originalParts = <<>>
    /\ translatedParts = <<>>
    /\ finalTranslation = <<>>
    /\ calls = 0
    /\ fellBack = TRUE
    /\ ppc = "start"
    /\ TagIdle
    /\ HttpIdle
    /\ RunIdle
    /\ PassIdle
    /\ ObjIdle
    /\ FixIdle

\* a string item of an array: result.push(await translateWithSugoi(item))
TranslateItem ==
    /\ ppc = "start" /\ stringKind = "item"
    /\ \E outcome \in Outcomes :
          /\ finalTranslation' = translateWithSugoi(key, outcome)
          /\ fellBack' = (outcome = "fails")
    /\ calls' = requests(key)
    /\ ppc' = "done"
    /\ UNCHANGED <<stringKind, key, hasUsername, entryTagMap, originalParts, translatedParts>>
    /\ UNCHANGED <<tagVars, httpVars, runVars, passVars, objVars, fixVars>>

\* a string entry of an object, up to the test for \n: the username
\* markers become the name, the bracket spans become placeholders
Prepare ==
    /\ ppc = "start" /\ stringKind = "entry"
    /\ hasUsername' = usernameMatches(key)
    /\ entryTagMap' = extractAndPreserveTags(replaceUsernames(key, realNamePlaceholder)).tagMap
    /\ originalParts' =
          split(extractAndPreserveTags(replaceUsernames(key, realNamePlaceholder)).processedText)
    /\ ppc' = IF Len(originalParts') > 1 THEN "parts" ELSE "single"
    /\ UNCHANGED <<stringKind, key, translatedParts, finalTranslation, calls, fellBack>>
    /\ UNCHANGED <<tagVars, httpVars, runVars, passVars, objVars, fixVars>>

\* one round of the loop over the parts, for a part with text
TranslatePart ==
    /\ ppc = "parts"
    /\ Len(translatedParts) < Len(originalParts)
    /\ trim(originalParts[Len(translatedParts) + 1]) # <<>>
    /\ \E outcome \in Outcomes :
          /\ translatedParts' =
                Append(translatedParts,
                       translatedPart(translateWithSugoi(
                           originalParts[Len(translatedParts) + 1], outcome)))
          /\ fellBack' = (fellBack /\ outcome = "fails")
    /\ calls' = calls + 1
    /\ UNCHANGED <<stringKind, key, hasUsername, entryTagMap, originalParts, finalTranslation, ppc>>
    /\ UNCHANGED <<tagVars, httpVars, runVars, passVars, objVars, fixVars>>

\* one round of the loop over the parts, for an empty or blank part
KeepEmptyPart ==
    /\ ppc = "parts"
    /\ Len(translatedParts) < Len(originalParts)
    /\ trim(originalParts[Len(translatedParts) + 1]) = <<>>
    /\ translatedParts' = Append(translatedParts, <<>>)
    /\ UNCHANGED <<stringKind, key, hasUsername, entryTagMap, originalParts, finalTranslation,
                   calls, fellBack, ppc>>
    /\ UNCHANGED <<tagVars, httpVars, runVars, passVars, objVars, fixVars>>

\* after the loop: the parts are joined and the passes run
FinishLines ==
    /\ ppc = "parts"
    /\ Len(translatedParts) = Len(originalParts)
    /\ finalTranslation' = finishLines(translatedParts, entryTagMap)
    /\ ppc' = "done"
    /\ UNCHANGED <<stringKind, key, hasUsername, entryTagMap, originalParts, translatedParts,
                   calls, fellBack>>
    /\ UNCHANGED <<tagVars, httpVars, runVars, passVars, objVars, fixVars>>

\* a key without \n: one call, then the passes
TranslateWhole ==
    /\ ppc = "single"
    /\ \E outcome \in Outcomes :
          /\ finalTranslation' =
                finishSingle(translateWithSugoi(originalParts[1], outcome),
                             hasUsername, entryTagMap)
          /\ fellBack' = (outcome = "fails")
    /\ calls' = requests(originalParts[1])
    /\ ppc' = "done"
    /\ UNCHANGED <<stringKind, key, hasUsername, entryTagMap, originalParts, translatedParts>>
    /\ UNCHANGED <<tagVars, httpVars, runVars, passVars, objVars, fixVars>>

PipeNext ==
    \/ TranslateItem \/ Prepare \/ TranslatePart \/ KeepEmptyPart
    \/ FinishLines \/ TranslateWhole

SpecPipe == PipeInit /\ [][PipeNext]_vars

----------------------------------------------------------------------------
(* Properties of translateObjectValues on one string                       *)

\* the positions of the empty and blank lines of s
BlankLines(s) == {k \in 1..Len(split(s)) : trim(split(s)[k]) = <<>>}

\* C2 as stated: the value of an entry whose source text holds a \n has as
\* many \n as the source text, and its blank lines are at the same line
\* positions.
C2_AsStated ==
    (ppc = "done" /\ stringKind = "entry" /\ Count(key, NL) > 0)
        => /\ Count(finalTranslation, NL) = Count(key, NL)
           /\ BlankLines(finalTranslation) = BlankLines(key)

\* C3 as stated: for an entry or an item that holds the marker or a
\* %user...na% variant, every substring of the output of the shape
\* %user...na% is the canonical marker.
C3_AsStated ==
    (ppc = "done" /\ usernameMatches(key))
        => \A i \in 1..Len(finalTranslation) :
              usernamePattern(finalTranslation, i) > 0
                 => MatchAt(finalTranslation, i, Marker)

\* C5 as stated: when every request made for a string failed, the value
\* written for it is the source text.
C5_AsStated ==
    (ppc = "done" /\ stringKind = "entry" /\ calls > 0 /\ fellBack)
        => finalTranslation = key

\* the parts of a multi-line key for which a request is made
SentParts == {k \in 1..Len(originalParts) : trim(originalParts[k]) # <<>>}

\* C17 as stated: in the multi-line path every blank part (empty or white
\* space only) is in the value written at the same line position with the
\* same content, and requests are made for the other parts only.
C17_AsStated ==
    (ppc = "done" /\ stringKind = "entry" /\ Len(originalParts) > 1)
        => /\ calls = Cardinality(SentParts)
           /\ \A k \in 1..Len(originalParts) :
                 k \notin SentParts
                    => /\ k <= Len(split(finalTranslation))
                       /\ split(finalTranslation)[k] = originalParts[k]

----------------------------------------------------------------------------
(* The passes that end both paths of translateObjectValues, one at a time, *)
(* on a text as the earlier passes may leave it                            *)

MaxPassPieces == 3

PassPieces ==
    { Marker, <<"%", "u", "s", "e", "r", "n", "a", "%">>,
      <<"s", "a", "n">>, <<"D", "o", "n", "o">>, <<"a">>, <<"1">>,
      <<" ">>, <<"-">>, <<Kana>>, <<Curly>> }

PassInit ==
    /\ passInput \in Texts(PassPieces, MaxPassPieces)
    /\ passText = passInput
    /\ passHonorificIn = <<>>
    /\ passStage = 0
    /\ TagIdle
    /\ HttpIdle
    /\ RunIdle
    /\ PipeIdle
    /\ ObjIdle
    /\ FixIdle

\* finalTranslation.replace(/%user[^%]*na%/gi, '%usernameusernameuserna%')
CollapseUsernames ==
    /\ passStage = 0
    /\ passText' = replaceUsernames(passText, Marker)
    /\ passHonorificIn' = replaceUsernames(passText, Marker)
    /\ passStage' = 1
    /\ UNCHANGED passInput
    /\ UNCHANGED <<tagVars, httpVars, runVars, pipeVars, objVars, fixVars>>

\* finalTranslation.replace(honorificPattern, ...)
AttachHonorifics ==
    /\ passStage = 1
    /\ passText' = attachHonorifics(passText)
    /\ passStage' = 2
    /\ UNCHANGED <<passInput, passHonorificIn>>
    /\ UNCHANGED <<tagVars, httpVars, runVars, pipeVars, objVars, fixVars>>

\* the first spacing rule
SpaceBoth ==
    /\ passStage = 2
    /\ passText' = spaceBoth(passText)
    /\ passStage' = 3
    /\ UNCHANGED <<passInput, passHonorificIn>>
    /\ UNCHANGED <<tagVars, httpVars, runVars, pipeVars, objVars, fixVars>>

\* the second spacing rule
SpaceBefore ==
    /\ passStage = 3
    /\ passText' = spaceBefore(passText)
    /\ passStage' = 4
    /\ UNCHANGED <<passInput, passHonorificIn>>
    /\ UNCHANGED <<tagVars, httpVars, runVars, pipeVars, objVars, fixVars>>

\* the third spacing rule
SpaceAfter ==
    /\ passStage = 4
    /\ passText' = spaceAfter(passText)
    /\ passStage' = 5
    /\ UNCHANGED <<passInput, passHonorificIn>>
    /\ UNCHANGED <<tagVars, httpVars, runVars, pipeVars, objVars, fixVars>>

\* the quotes are made straight
NormalizeQuotes ==
    /\ passStage = 5
    /\ passText' = normalizeQuotes(passText)
    /\ passStage' = 6
    /\ UNCHANGED <<passInput, passHonorificIn>>
    /\ UNCHANGED <<tagVars, httpVars, runVars, pipeVars, objVars, fixVars>>

PassNext ==
    \/ CollapseUsernames \/ AttachHonorifics \/ SpaceBoth \/ SpaceBefore
    \/ SpaceAfter \/ NormalizeQuotes

SpecPasses == PassInit /\ [][PassNext]_vars

----------------------------------------------------------------------------
(* Properties of the honorific pass                                        *)

\* the closed set of honorific words, in lower case
HonorificWords ==
    { <<"s", "a", "n">>, <<"k", "u", "n">>, <<"c", "h", "a", "n">>,
      <<"s", "a", "m", "a">>, <<"s", "e", "n", "p", "a", "i">>,
      <<"s", "e", "n", "s", "e", "i">>, <<"d", "o", "n", "o">> }

\* the word that starts at position j of s: its letters up to a character
\* that is no letter; <<>> when a digit or an underscore goes on the word
WordAt(s, j) ==
    IF wordEnds(s, j + RunIn(s, j, Lower \cup Upper))
    THEN SubSeq(s, j, j + RunIn(s, j, Lower \cup Upper) - 1)
    ELSE <<>>

\* the marker stands at position i of s and a honorific word follows it,
\* at once or after whitespace
BareHonorificAt(s, i) ==
    /\ MatchAt(s, i, Marker)
    /\ toLowerCase(WordAt(s, i + 24 + RunIn(s, i + 24, {" ", NL, "\t"}))) \in HonorificWords

BareHonorifics(s) == {i \in 1..Len(s) : BareHonorificAt(s, i)}

\* the marker, a hyphen and a honorific word stand at position i of s
HyphenatedAt(s, i) ==
    /\ MatchAt(s, i, Marker \o <<"-">>)
    /\ toLowerCase(WordAt(s, i + 25)) \in HonorificWords

\* s without its whitespace and hyphens
RECURSIVE Unspaced(_)
Unspaced(s) ==
    IF s = <<>> THEN <<>>
    ELSE IF IsSpace(s[1]) \/ s[1] = "-" THEN Unspaced(Tail(s))
    ELSE <<s[1]>> \o Unspaced(Tail(s))

\* C11: after the honorific pass no marker is followed, at once or after
\* whitespace, by a word of the honorific set without a hyphen: each such
\* marker got exactly one hyphen directly between it and the word, no other
\* hyphen was added, and a text with no such marker (only words outside the
\* set, or marker-honorific already hyphenated) comes out unchanged. The
\* later passes keep this.
C11_HonorificsHyphenated ==
    passStage >= 2 =>
        /\ BareHonorifics(passText) = {}
        /\ passStage = 2 =>
              /\ Count(passText, "-") =
                    Count(passHonorificIn, "-") + Cardinality(BareHonorifics(passHonorificIn))
              /\ Unspaced(passText) = Unspaced(passHonorificIn)
              /\ \A i \in 1..Len(passHonorificIn) :
                    HyphenatedAt(passHonorificIn, i) =>
                        \E k \in 1..Len(passText) : HyphenatedAt(passText, k)
              /\ BareHonorifics(passHonorificIn) = {} => passText = passHonorificIn

C11_Witness ==
    /\ passStage = 6
    /\ passInput = <<"%", "u", "s", "e", "r", "n", "a", "%", " ", "D", "o", "n", "o">>
    /\ passText = Marker \o <<"-", "D", "o", "n", "o">>

----------------------------------------------------------------------------
(* Properties of the spacing passes                                        *)

\* an alphanumeric character stands directly before or after the marker at
\* position i of s
TouchesAlnum(s, i) ==
    \/ i > 1 /\ IsAlnum(s[i - 1])
    \/ i + 24 <= Len(s) /\ IsAlnum(s[i + 24])

\* C12 as stated: in the final output of an entry no alphanumeric character
\* stands directly before or after the canonical marker (a honorific is
\* separated from it by its hyphen, any other by a space).
C12_AsStated ==
    (ppc = "done" /\ stringKind = "entry")
        => \A i \in 1..Len(finalTranslation) :
              MatchAt(finalTranslation, i, Marker) => ~TouchesAlnum(finalTranslation, i)

----------------------------------------------------------------------------
(* translateObjectValues on an object or an array: the loop over its keys  *)
(* or items. A container is a record of its kind and its members; a member *)
(* has a key (an array item has none: ""), a type, a text when it is a     *)
(* string, and members of its own when it is an object or an array. The    *)
(* text a string becomes is written as the passes it went through and the  *)
(* text that was given to them.                                            *)

\* the members of a container, at most
MaxMembers == 2

Keys == {"k1", "k2"}

\* the texts of string values: one of them is also a key
ValueTexts == {"k1", "v"}

Leaf(k, t, x) == [key |-> k, type |-> t, text |-> x, kind |-> "none", members |-> <<>>]

\* the string and other leaves under the key k
Leaves(k) ==
    {Leaf(k, "string", x) : x \in ValueTexts}
    \cup {Leaf(k, t, "") : t \in {"number", "boolean", "null"}}

\* the containers nested under the key k: an object or an array of one leaf
Nested(k) ==
    {[key |-> k, type |-> "object", text |-> "", kind |-> "object", members |-> <<m>>] :
        m \in Leaves("k1")}
    \cup {[key |-> k, type |-> "object", text |-> "", kind |-> "array", members |-> <<m>>] :
        m \in Leaves("")}

Members(k) == Leaves(k) \cup Nested(k)

\* the sequences of at most n members of an object with distinct keys, or
\* of an array
RECURSIVE MemberSeqs(_, _)
MemberSeqs(kind, n) ==
    IF n = 0 THEN {<<>>}
    ELSE MemberSeqs(kind, n - 1)
         \cup {Append(ms, m) :
                 ms \in MemberSeqs(kind, n - 1),
                 m \in UNION {Members(k) : k \in IF kind = "array" THEN {""} ELSE Keys}}

DistinctKeys(ms) == \A i, j \in 1..Len(ms) : ms[i].key = ms[j].key => i = j

Containers ==
    {[kind |-> "object", members |-> ms] :
        ms \in {x \in MemberSeqs("object", MaxMembers) : DistinctKeys(x)}}
    \cup {[kind |-> "array", members |-> ms] : ms \in MemberSeqs("array", MaxMembers)}

\* the text an entry gives to the pipeline: the value
sourceTextValue(k, v) == v

\* the text an entry gives to the pipeline: const key = keys[i], and key is
\* what the pattern, the extraction and the call are applied to
sourceText(k, v) == k

\* typeof x === 'object' && x !== null
isObject(m) == m.type = "object"

\* what the loop stores for one member of a container of the given kind,
\* the nested containers translated by translated
translatedMember(kind, m, nested) ==
    IF isObject(m) THEN [m EXCEPT !.members = nested]
    ELSE IF m.type = "string"
    THEN IF kind = "array"
         THEN [m EXCEPT !.text = <<"translateWithSugoi", m.text>>]
         ELSE [m EXCEPT !.text = <<"pipeline", sourceText(m.key, m.text)>>]
    ELSE m

\* translateObjectValues(obj) for a container whose members are leaves
RECURSIVE translatedLeaves(_, _)
translatedLeaves(kind, ms) ==
    IF ms = <<>> THEN <<>>
    ELSE <<translatedMember(kind, ms[1], <<>>)>> \o translatedLeaves(kind, Tail(ms))

ObjInit ==
    /\ obj \in Containers
    /\ result = <<>>
    /\ TagIdle
    /\ HttpIdle
    /\ RunIdle
    /\ PipeIdle
    /\ PassIdle
    /\ FixIdle

\* one round of the loop, for a member that is a string
TranslateString ==
    /\ Len(result) < Len(obj.members)
    /\ obj.members[Len(result) + 1].type = "string"
    /\ result' = Append(result, translatedMember(obj.kind, obj.members[Len(result) + 1], <<>>))
    /\ UNCHANGED obj
    /\ UNCHANGED <<tagVars, httpVars, runVars, pipeVars, passVars, fixVars>>

\* one round of the loop, for a member that is an object or an array: the
\* recursive call
TranslateNested ==
    /\ Len(result) < Len(obj.members)
    /\ isObject(obj.members[Len(result) + 1])
    /\ result' =
          Append(result,
                 translatedMember(obj.kind, obj.members[Len(result) + 1],
                     translatedLeaves(obj.members[Len(result) + 1].kind,
                                      obj.members[Len(result) + 1].members)))
    /\ UNCHANGED obj
    /\ UNCHANGED <<tagVars, httpVars, runVars, pipeVars, passVars, fixVars>>

\* one round of the loop, for any other member: result[key] = value
CopyLeaf ==
    /\ Len(result) < Len(obj.members)
    /\ ~isObject(obj.members[Len(result) + 1])
    /\ obj.members[Len(result) + 1].type # "string"
    /\ result' = Append(result, translatedMember(obj.kind, obj.members[Len(result) + 1], <<>>))
    /\ UNCHANGED obj
    /\ UNCHANGED <<tagVars, httpVars, runVars, pipeVars, passVars, fixVars>>

ObjNext == TranslateString \/ TranslateNested \/ CopyLeaf

SpecObject == ObjInit /\ [][ObjNext]_vars

----------------------------------------------------------------------------
(* Properties of the loop over an object                                   *)

\* the string entries of an object among the members ms and their results rs
StringEntriesUse(ms, rs, useKey) ==
    \A i \in 1..Len(rs) :
        ms[i].type = "string" =>
            rs[i].text = <<"pipeline", IF useKey THEN ms[i].key ELSE ms[i].text>>

\* C13 as stated: the text of a string entry that goes through the pipeline
\* is the value of the entry.
C13_AsStated ==
    obj.kind = "object" => StringEntriesUse(obj.members, result, FALSE)

\* C13: the text of a string entry that goes through the pipeline is the
\* key of the entry, whatever its value, in the object and in an object
\* nested in it; the result has the keys of the object, in their order; and
\* every leaf that is no string and no object is stored as it was.
C13_KeyIsTranslated ==
    obj.kind = "object" =>
        /\ StringEntriesUse(obj.members, result, TRUE)
        /\ \A i \in 1..Len(result) :
              /\ result[i].key = obj.members[i].key
              /\ result[i].type = obj.members[i].type
              /\ (obj.members[i].type \notin {"string", "object"})
                    => result[i] = obj.members[i]
              /\ (isObject(obj.members[i]) /\ obj.members[i].kind = "object")
                    => /\ Len(result[i].members) = Len(obj.members[i].members)
                       /\ StringEntriesUse(obj.members[i].members, result[i].members, TRUE)
                       /\ \A j \in 1..Len(result[i].members) :
                             /\ result[i].members[j].key = obj.members[i].members[j].key
                             /\ obj.members[i].members[j].type # "string"
                                   => result[i].members[j] = obj.members[i].members[j]

C13_Witness ==
    /\ obj.kind = "object"
    /\ Len(result) = 2 /\ Len(obj.members) = 2
    /\ obj.members[1] = Leaf("k2", "string", "v")
    /\ result[1].text = <<"pipeline", "k2">>
    /\ obj.members[2].type = "null"
    /\ result[2] = obj.members[2]

----------------------------------------------------------------------------
(* Properties of the requests of a run                                     *)

\* the requests that have not ended in a response, an error or a timeout
Outstanding == {r \in 1..Len(reqs) : reqs[r].state = "open"}

\* C14: at most one request is outstanding at any moment, and no request
\* is outstanding while the caller is between two calls; this holds also
\* after a timed-out request was destroyed and its error handler fired
\* after its timeout handler.
C14_OneOutstanding ==
    /\ Cardinality(Outstanding) <= 1
    /\ hpc = "idle" => Outstanding = {}
    /\ \A r \in Outstanding : r = Len(reqs) /\ reqs[r].call = Len(promises)

C14_Witness ==
    /\ script = "translate-values"
    /\ Cardinality(Outstanding) = 1
    /\ \E r \in 1..Len(reqs) :
          /\ reqs[r].state = "done"
          /\ reqs[r].outcome = "timeout"
          /\ reqs[r].call < Len(promises)

----------------------------------------------------------------------------
(* Restoration on its own: restoreTags applied to a text as the service    *)
(* may return it (placeholders kept, damaged, dropped or invented) and to  *)
(* the tag map of a source string.                                         *)

\* the number of pieces a returned text is made of, at most
MaxReplyPieces == 3

\* a placeholder with one leading underscore, and one in lower case with
\* no leading and two trailing underscores
ErodedLead == <<"_">> \o TAG \o <<"0">> \o Underscores3
ErodedBare == <<"t", "a", "g", "0", "_", "_">>

ReplyPieces ==
    { Placeholder(0), Placeholder(1), Placeholder(5), ErodedLead, ErodedBare,
      <<"a">>, <<" ">>, <<Kana>>, <<"_">>,
      <<"<">> \o color \o <<">">>, USERNAME_PLACEHOLDER }

\* the source strings the tag maps are taken from
RestoreSources ==
    { <<>>,
      <<LB, Kana, RB>>,
      <<LB, Kana, RB, LB, "r", "=", Kana, RB>>,
      <<LB>> \o Placeholder(0) \o <<RB, LB, Kana, RB>> }

RestoreInit ==
    /\ text \in RestoreSources
    /\ processedText = extractAndPreserveTags(text).processedText
    /\ tagMap = extractAndPreserveTags(text).tagMap
    /\ corruption = "none"
    /\ translated \in Texts(ReplyPieces, MaxReplyPieces)
    /\ restored = <<>>
    /\ tpc = "translated"
    /\ HttpIdle
    /\ RunIdle
    /\ PipeIdle
    /\ PassIdle
    /\ ObjIdle
    /\ FixIdle

SpecRestore == RestoreInit /\ [][Restore]_vars

MapKeys(map) == {map[e][1] : e \in 1..Len(map)}

\* the map without its entry e
Without(map, e) == SubSeq(map, 1, e - 1) \o SubSeq(map, e + 1, Len(map))

Occurrences(s, lit) == {i \in 1..Len(s) : MatchAt(s, i, lit)}

\* the placeholder-shaped token at position i, <<>> when there is none
TokenAt(s, i) == SubSeq(s, i, i + TokenLen(s, i) - 1)

\* a placeholder-shaped token that is no key of the map stands at i
DanglingAt(s, i, map) == TokenLen(s, i) > 0 /\ TokenAt(s, i) \notin MapKeys(map)

\* the text boundary or a character that is no letter, digit, % or
\* underscore is on each side of the l characters at position i
StandsApart(s, i, l) ==
    /\ i = 1 \/ ~(IsAlnumPct(s[i - 1]) \/ s[i - 1] = "_")
    /\ i + l > Len(s) \/ ~(IsAlnumPct(s[i + l]) \/ s[i + l] = "_")

ApartOccurrences(s, lit) == {i \in Occurrences(s, lit) : StandsApart(s, i, Len(lit))}

IncludesCI(s, lit) == \E i \in 1..Len(s) : MatchAtCI(s, i, lit)

\* the entry e of the map is found in s neither by the exact pattern nor
\* by the flexible pattern
NotFound(s, map, e) ==
    /\ ~exactPatternTest(s, map[e][1])
    /\ flexibleMatches(s, indexMatch(map[e][1])) = <<>>

\* TAG<N> of the entry e stands nowhere in s and in no span of the map, in
\* any letter case
NowhereAtAll(s, map, e) ==
    /\ ~IncludesCI(s, TAG \o indexMatch(map[e][1]))
    /\ \A f \in 1..Len(map) : ~IncludesCI(map[f][2], TAG \o indexMatch(map[e][1]))

\* C15 as stated: every placeholder-shaped token of the translated text
\* that has no map entry is in the output as often as before, and a map
\* entry that neither pattern finds in the translated text changes nothing.
C15_AsStated ==
    tpc = "restored" =>
        /\ \A i \in 1..Len(translated) :
              DanglingAt(translated, i, tagMap) =>
                  Cardinality(Occurrences(restored, TokenAt(translated, i)))
                      >= Cardinality(Occurrences(translated, TokenAt(translated, i)))
        /\ \A e \in 1..Len(tagMap) :
              NotFound(translated, tagMap, e) =>
                  restored = restoreTags(translated, Without(tagMap, e))

\* C15, amended: restoration ends for every text and map; every
\* placeholder-shaped token without a map entry that stands apart (no
\* letter, digit, % or underscore next to it) is still in the output; and
\* a map entry whose TAG<N> stands nowhere in the translated text nor in a
\* span of the map, in any letter case, changes nothing.
C15_LeftAsIs ==
    tpc = "restored" =>
        /\ \A i \in 1..Len(translated) :
              DanglingAt(translated, i, tagMap) =>
                  Cardinality(Occurrences(restored, TokenAt(translated, i)))
                      >= Cardinality(ApartOccurrences(translated, TokenAt(translated, i)))
        /\ \A e \in 1..Len(tagMap) :
              NowhereAtAll(translated, tagMap, e) =>
                  restored = restoreTags(translated, Without(tagMap, e))

C15_Witness ==
    /\ tpc = "restored"
    /\ Len(tagMap) = 2
    /\ translated = Placeholder(5) \o <<" ">> \o Placeholder(1)
    /\ restored = Placeholder(5) \o <<" ">> \o tagMap[2][2]
    /\ NowhereAtAll(translated, tagMap, 1)

\* TAG<index> in any letter case stands at position j
coreAt(s, j, index) == MatchAtCI(s, j, TAG) /\ MatchAt(s, j + 3, index)

\* the length of TAG<index> at position i with the underscores before and
\* after it, 0 when there is none
ErodedLen(s, i, index) ==
    IF coreAt(s, i + RunOf(s, i, "_"), index)
    THEN RunOf(s, i, "_") + 3 + Len(index)
         + RunOf(s, i + RunOf(s, i, "_") + 3 + Len(index), "_")
    ELSE 0

\* a damaged form of the placeholder of index stands at position i: the
\* letters TAG in any case and the index, at least one underscore, not the
\* exact placeholder, and nothing of a word next to it
ErodedAt(s, i, index) ==
    /\ ErodedLen(s, i, index) > 3 + Len(index)
    /\ StandsApart(s, i, ErodedLen(s, i, index))
    /\ SubSeq(s, i, i + ErodedLen(s, i, index) - 1)
          # Underscores3 \o TAG \o index \o Underscores3

\* position i is after a < that no > has closed
InsideMarkup(s, i) ==
    \E j \in 1..(i - 1) : s[j] = "<" /\ \A k \in (j + 1)..(i - 1) : s[k] # ">"

\* C16 as stated: when the exact placeholder of a map entry is absent from
\* the translated text, every damaged form of it (fewer underscores before
\* or after, or another letter case) that is outside a markup tag is
\* replaced, so none is left in the output.
C16_AsStated ==
    tpc = "restored" =>
        \A e \in 1..Len(tagMap) :
            (/\ ~exactPatternTest(translated, tagMap[e][1])
             /\ \E i \in 1..Len(translated) :
                   /\ ErodedAt(translated, i, indexMatch(tagMap[e][1]))
                   /\ ~InsideMarkup(translated, i))
            => ~\E i \in 1..Len(restored) :
                   /\ ErodedAt(restored, i, indexMatch(tagMap[e][1]))
                   /\ ~InsideMarkup(restored, i)

\* the text after the first k rounds of the loop over the sorted entries
afterEntries(s, map, k) == restoreLoop(SubSeq(sortedEntries(map), 1, k), 1, s)

\* the round for placeholder on the text r goes through the flexible
\* pattern and keeps at least one match
fuzzyTaken(r, placeholder) ==
    /\ indexMatch(placeholder) # <<>>
    /\ ~exactPatternTest(r, placeholder)
    /\ flexibleMatches(r, indexMatch(placeholder)) # <<>>

\* the first underscore of the match that starts at position p: the
\* corrupted token starts there, after the character the group took
tokenStart(s, p) == IF s[p] = "_" THEN p ELSE p + 1

TokenStarts(s, matches) ==
    {tokenStart(s, matches[k].index + 1) : k \in 1..Len(matches)}

\* the match whose token starts at position i
matchOfToken(s, matches, i) ==
    CHOOSE k \in 1..Len(matches) : tokenStart(s, matches[k].index + 1) = i

\* the length of the corrupted token that starts at position i, 0 when
\* none does
tokenLenAt(s, matches, i) ==
    IF i \in TokenStarts(s, matches)
    THEN matches[matchOfToken(s, matches, i)].index + 1
         + matches[matchOfToken(s, matches, i)].length - i
    ELSE 0

\* no space or one space, before and after a restored span
SpaceChoices == {<<>>, <<" ">>} \X {<<>>, <<" ">>}

\* out is r with each corrupted token, and nothing else, replaced by the
\* span with at most one space on each side
OnlyTokensReplaced(r, out, matches, tag) ==
    \E sp \in [TokenStarts(r, matches) -> SpaceChoices] :
        out = ReplaceFrom(r,
                  [i \in 1..Len(r) |-> tokenLenAt(r, matches, i)],
                  [i \in 1..Len(r) |->
                      IF i \in TokenStarts(r, matches)
                      THEN sp[i][1] \o tag \o sp[i][2]
                      ELSE <<>>],
                  1)

\* C21 as stated: in every round of restoreTags that restores through the
\* flexible pattern, only the corrupted tokens are replaced: the text after
\* the round is the text before it with each matched token (from its first
\* underscore on) replaced by the span with at most one space on each side,
\* so the character before the token and every other character stay, in
\* the same order.
C21_AsStated ==
    tpc = "restored" =>
        /\ restored = afterEntries(translated, tagMap, Len(tagMap))
        /\ \A k \in 1..Len(tagMap) :
              fuzzyTaken(afterEntries(translated, tagMap, k - 1),
                         sortedEntries(tagMap)[k][1])
              => OnlyTokensReplaced(
                     afterEntries(translated, tagMap, k - 1),
                     afterEntries(translated, tagMap, k),
                     flexibleMatches(afterEntries(translated, tagMap, k - 1),
                                     indexMatch(sortedEntries(tagMap)[k][1])),
                     sortedEntries(tagMap)[k][2])

----------------------------------------------------------------------------
(* Properties of a run: unparseable files, the file limit, fallbacks       *)

\* C18: a file that does not parse when the run reaches it is left as it
\* is on disk, is not sent to the translator, is not rewritten and is not
\* added to the tracking set in memory or on disk, and the run goes on:
\* a run that ends without reaching the file limit has reached every file
\* after it.
C18_UnparseableSkipped ==
    \A f \in Files :
        seen[f] = "unparseable" =>
            /\ disk[f] = "unparseable"
            /\ f \notin sent
            /\ f \notin rewritten
            /\ f \notin translatedFiles
            /\ f \notin trackingOnDisk
            /\ rpc = "loop" => cursor > f
            /\ (rpc = "done" /\ ~limitReached) =>
                  \A g \in Files : g > f => seen[g] # "unreached"

C18_Witness ==
    /\ rpc = "done"
    /\ seen[1] = "unparseable"
    /\ seen[2] = "unparseable"
    /\ \A g \in Files : g > 2 => g \in rewritten

\* no file is read, sent to the translator, written or marked in this step
NoFileTouched ==
    /\ disk' = disk
    /\ parsed' \subseteq parsed
    /\ sent' \subseteq sent
    /\ rewritten' \subseteq rewritten
    /\ translatedFiles' \subseteq translatedFiles
    /\ \A f \in Files : seen'[f] # seen[f] => seen'[f] = "unreached"

\* C19: the files a run has rewritten are as many as stats.processed says,
\* and with a file limit M they are never more than M; once M files are
\* processed no step of the run reads, translates, marks or writes a file.
C19_LimitKept ==
    /\ [](Cardinality(rewritten) = stats.processed)
    /\ [](maxFiles # 0 => stats.processed <= maxFiles)
    /\ [][(maxFiles # 0 /\ stats.processed >= maxFiles) => NoFileTouched]_vars

C19_Witness ==
    /\ rpc = "done"
    /\ maxFiles = 2
    /\ stats.processed = 2
    /\ Cardinality(rewritten) = 2
    /\ cursor < NumFiles
    /\ \A f \in Files : f >= cursor => (seen[f] = "unreached" /\ disk[f] = "plain")

\* C20 as stated: the files a run has rewritten are in its tracking set,
\* and no run reaches, outside its tracking set, a file that an earlier
\* run has written with the fallback texts.
C20_AsStated ==
    /\ rpc \in {"loop", "translating", "done"} => rewritten \subseteq translatedFiles
    /\ \A f \in Files : seen[f] # "fallback"

\* C20, amended: a file is added to the tracking set in memory in the step
\* that rewrites it, with translations or with the fallback texts; the
\* tracking file lists every file of a run that ended normally and never
\* loses a file; and a run neither translates nor rewrites a file that was
\* in the tracking file it loaded, whatever the file holds, but counts it
\* as skipped when it reaches it.
C20_RecordedOnceSaved ==
    /\ [][\A f \in rewritten' \ rewritten :
             /\ f \in translatedFiles'
             /\ disk'[f] \in {"rewritten", "fallback"}]_vars
    /\ [](rpc = "done" => rewritten \subseteq trackingOnDisk)
    /\ [][trackingOnDisk \subseteq trackingOnDisk']_vars
    /\ [](\A f \in loaded :
             /\ f \notin sent
             /\ f \notin rewritten
             /\ seen[f] \in {"unreached", "tracked"}
             /\ seen[f] = "tracked" => f \in skippedFiles)

C20_Witness ==
    /\ runs = 2
    /\ rpc = "done"
    /\ disk[2] = "fallback"
    /\ 2 \in loaded
    /\ seen[2] = "tracked"
    /\ 2 \in skippedFiles
    /\ 2 \notin sent

----------------------------------------------------------------------------
(* fix-newlines.js: fixFileNewlines applied again and again to one file.   *)
(* An entry of the file is its key, its value, and whether the value is a  *)
(* string.                                                                 *)

\* the times fixFileNewlines is applied to the file, at most
MaxApplications == 3

\* the number of pieces a value is made of, at most
MaxValuePieces == 3

translatedKey ==
    <<"_", "_", "t", "r", "a", "n", "s", "l", "a", "t", "e", "d", "_", "_">>

\* .replace(/<br\s*\/?>/gi, '\n')
brToNewline(s) ==
    ReplaceFrom(s, [i \in 1..Len(s) |-> brPattern(s, i)], [i \in 1..Len(s) |-> <<NL>>], 1)

\* the length of the match of /\n\s*\n/ at position i, 0 when there is
\* none: the greedy \s* ends at the last \n of the whitespace after i
blankLinesLen(s, i) ==
    IF /\ s[i] = NL
       /\ \E k \in (i + 1)..(i + RunIn(s, i + 1, {" ", NL, "\t"})) : s[k] = NL
    THEN (CHOOSE k \in (i + 1)..(i + RunIn(s, i + 1, {" ", NL, "\t"})) :
              /\ s[k] = NL
              /\ \A j \in (k + 1)..(i + RunIn(s, i + 1, {" ", NL, "\t"})) : s[j] # NL)
         - i + 1
    ELSE 0

\* .replace(/\n\s*\n/g, '\n')
collapseBlankLines(s) ==
    ReplaceFrom(s, [i \in 1..Len(s) |-> blankLinesLen(s, i)],
                [i \in 1..Len(s) |-> <<NL>>], 1)

\* the four replacements on the value
fixedValueOf(value) ==
    collapseBlankLines(
        replaceAllCI(
            replaceAllCI(brToNewline(value), <<"<", "b", ">">>, <<NL>>),
            <<"<", "/", "b", ">">>, <<>>))

\* translateWithSugoi of fix-newlines.js as its caller sees it
fixTranslate(s, outcome) ==
    IF s = <<>> \/ trim(s) = <<>> \/ outcome = "fails" THEN s ELSE answer(s, outcome)

\* the loop over originalParts: the translation of each part that is not
\* blank, trimmed, and '' for a blank part
RECURSIVE retranslateParts(_, _, _)
retranslateParts(parts, outcomes, k) ==
    IF k > Len(parts) THEN <<>>
    ELSE <<IF trim(parts[k]) # <<>>
           THEN fixTranslate(trim(parts[k]), outcomes[k])
           ELSE <<>>>>
         \o retranslateParts(parts, outcomes, k + 1)

\* originalNewlineCount > 0 && valueNewlineCount === 0: the value has to
\* be made again from the key
stillMissing(entry) ==
    /\ Count(entry.key, NL) > 0
    /\ Count(fixedValueOf(entry.value), NL) = 0

\* the entry is one the loop looks into
looksInto(entry) ==
    /\ entry.key # translatedKey
    /\ Includes(entry.key, <<NL>>)
    /\ entry.str

\* fixedData[key] after one round of the loop over the entries
fixEntry(entry, outcomes) ==
    IF ~looksInto(entry) THEN entry
    ELSE IF stillMissing(entry)
         THEN [entry EXCEPT !.value = join(retranslateParts(split(entry.key), outcomes, 1))]
         ELSE [entry EXCEPT !.value = fixedValueOf(entry.value)]

\* the round sets fixed
entryFixed(entry) ==
    looksInto(entry) /\ (stillMissing(entry) \/ fixedValueOf(entry.value) # entry.value)

\* what the service does with one part
FixOutcomes == {"plain", "fails", "twoLines"}

\* the outcomes of the calls one round of the loop makes: one for each part
\* of the key when the value is made again from the key
OutcomesFor(entry) ==
    IF looksInto(entry) /\ stillMissing(entry)
    THEN [1..Len(split(entry.key)) -> FixOutcomes]
    ELSE {<<>>}

\* fixedData after the loop, for every way the calls may end
RECURSIVE fixedData(_)
fixedData(data) ==
    IF data = <<>> THEN {<<>>}
    ELSE {<<fixEntry(data[1], outcomes)>> \o rest :
             outcomes \in OutcomesFor(data[1]), rest \in fixedData(Tail(data))}

FixKeys ==
    { <<Kana>>, <<Kana, NL, Kana>>, <<Kana, NL, NL, Kana>>, <<Kana, NL>>,
      <<NL>>, <<" ", NL, Kana>> }

ValuePieces ==
    { <<"a">>, <<" ">>, <<NL>>, <<"<", "B", "R", " ", "/", ">">>,
      <<"<", "b", ">">>, <<"<", "/", "b", ">">>, <<"<">>, <<"b", ">">> }

\* the entries that may follow the first one in the file
OtherEntries ==
    { [key |-> translatedKey, value |-> <<"<", "b", ">">>, str |-> TRUE],
      [key |-> <<"a", NL, "b">>, value |-> <<>>, str |-> FALSE],
      [key |-> <<"a", NL, "b">>, value |-> <<"a">>, str |-> TRUE] }

FixInit ==
    /\ fileParses \in BOOLEAN
    /\ \E k \in FixKeys, v \in Texts(ValuePieces, MaxValuePieces) :
          \/ fileData = <<[key |-> k, value |-> v, str |-> TRUE]>>
          \/ \E o \in OtherEntries :
                fileData = <<[key |-> k, value |-> v, str |-> TRUE], o>>
    /\ fileBefore = fileData
    /\ fixReturns = <<>>
    /\ TagIdle
    /\ HttpIdle
    /\ RunIdle
    /\ PipeIdle
    /\ PassIdle
    /\ ObjIdle

\* fixFileNewlines(filePath), from the read to the return
FixFile ==
    /\ Len(fixReturns) < MaxApplications
    /\ fileBefore' = fileData
    /\ IF fileParses /\ \E e \in 1..Len(fileData) : entryFixed(fileData[e])
       THEN /\ fileData' \in fixedData(fileData)
            /\ fixReturns' = Append(fixReturns, TRUE)
       ELSE /\ fileData' = fileData
            /\ fixReturns' = Append(fixReturns, FALSE)
    /\ UNCHANGED fileParses
    /\ UNCHANGED <<tagVars, httpVars, runVars, pipeVars, passVars, objVars>>

FixNext == FixFile

SpecFix == FixInit /\ [][FixNext]_vars

\* C22 as stated: once fixFileNewlines has been applied to a file, applying
\* it again returns false and leaves the file as it is; and an application
\* leaves the number of line breaks of every value that has as many line
\* breaks as its key, blank lines included, as it is.
C22_AsStated ==
    /\ Len(fixReturns) >= 2 =>
          /\ fixReturns[Len(fixReturns)] = FALSE
          /\ fileData = fileBefore
    /\ Len(fixReturns) >= 1 =>
          \A e \in 1..Len(fileData) :
              (/\ fileBefore[e].str
               /\ Count(fileBefore[e].value, NL) = Count(fileBefore[e].key, NL))
              => Count(fileData[e].value, NL) = Count(fileData[e].key, NL)

====
